---- MODULE Spec2Model ----
(***************************************************************************)
(* Alerting and credential-lifecycle subsystem of the audio encoder:       *)
(*   - SilenceNotifier (notify package): per-episode dedup flags and       *)
(*     detached notification sends;                                        *)
(*   - SecretExpiryChecker with the doneCh rendezvous (Start/Stop/         *)
(*     UpdateConfig/check);                                                *)
(*   - SecretExpiryChecker of internal/notify/graph_expiry.go (stopCh made *)
(*     once by the constructor, Stop without rendezvous).                  *)
(*   - the cached Graph client of the SilenceNotifier and its email sends;  *)
(*   - GraphClient.SendMail / ValidateAuth and SendTestEmail;               *)
(*   - the lock discipline of both components, statement by statement.     *)
(* A critical section under a mutex that contains no blocking operation is *)
(* one atomic action; everything between two critical sections is a step   *)
(* of its own. Only the lock-discipline part takes and releases the        *)
(* mutexes in steps of their own.                                          *)
(***************************************************************************)
EXTENDS Integers, Sequences, FiniteSets, TLC

\* ------------------------------------------------------------------ bounds
NumCallers == 2        \* threads of the audio monitor calling HandleEvent

NumClients == 2        \* threads calling Start / Stop / UpdateConfig
MaxLoops == 2          \* periodic goroutines alive at once
MaxRuns == 2           \* Stopped -> Running transitions of one monitor

Callers == 1..NumCallers
Channels == {"webhook", "email", "log"}

VARIABLES
    \* ---- SilenceNotifier
    cfg,           \* live configuration read through n.cfg.Snapshot()
    webhookSent,   \* n.webhookSent
    emailSent,     \* n.emailSent
    logSent,       \* n.logSent
    npc,           \* position of each HandleEvent caller
    nev,           \* the event a caller is handling
    nsnap,         \* the caller's configuration snapshot
    nrec,          \* channels whose recovery the caller decided to send
    tasks,         \* detached sends in flight (distinct ones)
    \* ---- history of the current episode (not program state)
    startCount,    \* start notifications claimed per channel since the last clear
    epStarted,     \* per caller: channels started in the episode its recovery closed
    lastClear      \* what cleared claimed starts last: "none", "reset", "recovery"

nvars == <<cfg, webhookSent, emailSent, logSent, npc, nev, nsnap,
           nrec, tasks, startCount, epStarted, lastClear>>

VARIABLES
    \* ---- SecretExpiryChecker
    running,       \* c.running
    checking,      \* c.checking
    stopCh,        \* c.stopCh: 0 is nil, n > 0 the channel made by the n-th make
    doneCh,        \* c.doneCh, likewise
    closed,        \* the stop channels that have been closed
    ccfg,          \* c.cfg
    tokenSource,   \* c.tokenSource: "nil" or the configuration it was built from
    cachedInfo,    \* c.cachedInfo
    lastCheck,     \* c.lastCheck: "never" (zero time) or "set"
    made,          \* number of make(chan struct{}) pairs so far
    panicked,      \* close of a closed channel: the process has panicked
    pc,            \* position of every thread: clients and periodic goroutines
    lcfg,          \* check(): local cfg
    ldone,         \* check() / Stop(): local doneCh
    lsel,          \* periodic goroutine: the c.stopCh its select evaluated
    \* ---- history (not program state)
    born,          \* periodic goroutine: the run whose Start launched it
    myrun,         \* Start call: the run it began
    wrote,         \* the thread's current call has completed a check
    owed,          \* Stop call: checks that were in flight when it took the lock
    uarg,          \* UpdateConfig call: its argument, and whether no later
                   \* UpdateConfig has stored another configuration since
    \* ---- environment
    offered        \* the configurations the monitor is constructed or updated with

mvars == <<running, checking, stopCh, doneCh, closed, ccfg, tokenSource,
           cachedInfo, lastCheck, made, panicked, pc, lcfg, ldone, lsel, born,
           myrun, wrote, owed, uarg, offered>>

VARIABLES
    \* ---- GraphClient.SendMail / sendWithRetry, one call
    mailpc,        \* "idle", "sleep" (top of the loop), "request", "done"
    toRecipients,  \* SendMail: the recipients kept after filtering
    attempt,       \* sendWithRetry: attempt
    retryWait,     \* sendWithRetry: retryWait, in seconds
    lastErr,       \* sendWithRetry: lastErr
    mailResult,    \* the error SendMail returned, NoErr for nil
    \* ---- history (not program state)
    sleeps,        \* the time.Sleep durations of the call, in order
    answers,       \* what the endpoint answered to each request, in order
    \* ---- environment
    urlOK          \* http.NewRequest accepts the URL built from fromAddress

gvars == <<mailpc, toRecipients, attempt, retryWait, lastErr, mailResult,
           sleeps, answers, urlOK>>

VARIABLES
    \* ---- SecretExpiryChecker, its checks one after another
    xpc,           \* "idle", or the position inside check() / fetchExpiryInfo()
    xcfg,          \* c.cfg
    xtokenSource,  \* c.tokenSource: "nil" or "set"
    xcachedInfo,   \* c.cachedInfo, with all its fields
    xlastCheck,    \* c.lastCheck: 0 (zero time) or the time of the write
    now,           \* the clock, one tick per check
    fetched,       \* what fetchExpiryInfo returned: info and err
    \* ---- history (not program state)
    apiResp,       \* the answer of the identity API to the current check
    effects        \* token source made, token and API requests of the check

evars == <<xpc, xcfg, xtokenSource, xcachedInfo, xlastCheck, now, fetched,
           apiResp, effects>>

VARIABLES
    \* ---- SilenceNotifier: the cached Graph client and the email sends
    graphClient,   \* n.graphClient: NilClient or the client, named by the
                   \* version of the configuration it was built from
    gstore,        \* the Graph configuration in the store: version, configured
    spc,           \* position of each email send task
    sgraphCfg,     \* graphCfg of the task: BuildGraphConfig of its snapshot
    sclient,       \* the client getOrCreateGraphClient returned to the task
    \* ---- history (not program state)
    invalidatedAt  \* store version at the latest InvalidateGraphClient()

kvars == <<graphClient, gstore, spc, sgraphCfg, sclient, invalidatedAt>>

VARIABLES
    \* ---- both components, statement by statement
    lpc,           \* per worker: the function it runs and the next statement
    wlock,         \* per mutex: the worker holding it for writing, 0 if none
    rlock,         \* the workers holding c.mu for reading
    inio           \* the workers inside a network call or a log write

lvars == <<lpc, wlock, rlock, inio>>

VARIABLES
    \* ---- SendTestEmail
    tpc,           \* position inside SendTestEmail
    tcfg,          \* its cfg argument
    tprobe,        \* the outcome of the request made by ValidateAuth
    terr           \* the error SendTestEmail returns

tvars == <<tpc, tcfg, tprobe, terr>>

vars == <<nvars, mvars, gvars, evars, kvars, lvars, tvars>>

\* ------------------------------------------------------------ configuration
\* config.Snapshot: HasWebhook(), HasGraph(), HasLogPath() of the live config.
\* The configurations the store is given: every channel is enabled in some
\* and disabled in others.
Configs ==
    { [webhook |-> TRUE,  graph |-> TRUE,  log |-> TRUE],
      [webhook |-> FALSE, graph |-> FALSE, log |-> TRUE],
      [webhook |-> FALSE, graph |-> FALSE, log |-> FALSE] }

NoConfig == [webhook |-> FALSE, graph |-> FALSE, log |-> FALSE]

\* audio.SilenceEvent: the two transition bits HandleEvent reads.
Events == [JustEntered : BOOLEAN, JustRecovered : BOOLEAN]

NoEvent == [JustEntered |-> FALSE, JustRecovered |-> FALSE]

\* cfg.HasWebhook() / cfg.HasGraph() / cfg.HasLogPath() on a snapshot.
ChannelEnabled(snap, ch) ==
    CASE ch = "webhook" -> snap.webhook
      [] ch = "email"   -> snap.graph
      [] ch = "log"     -> snap.log

\* The flag a *bool argument of trySend points to.
SentFlag(ch) ==
    CASE ch = "webhook" -> webhookSent
      [] ch = "email"   -> emailSent
      [] ch = "log"     -> logSent

\* Order of the three trySend calls in handleSilenceStart.
NextChannel(ch) ==
    CASE ch = "webhook" -> "email"
      [] ch = "email"   -> "log"
      [] ch = "log"     -> "none"

Min(a, b) == IF a < b THEN a ELSE b

\* ========================================================= SilenceNotifier
Idle == [at |-> "idle", ch |-> "none"]

At(p, where) == npc[p].at = where

\* Where handleSilenceStart goes after the trySend of channel ch: the next
\* trySend, then HandleEvent's second if (event.JustRecovered).
AfterTrySend(ev, ch) ==
    IF NextChannel(ch) # "none" THEN [at |-> "trySend", ch |-> NextChannel(ch)]
    ELSE IF ev.JustRecovered THEN [at |-> "endSnap", ch |-> "none"]
    ELSE Idle

\* The goroutine `go sender()` starts for a start notification, and the ones
\* handleSilenceEnd starts. The webhook and log senders go straight to their
\* I/O; the email sender first runs sendEmailWithClient up to SendMail.
SendTask(ch, snap) == [ch |-> ch]

SetFlags(w, e, l) ==
    /\ webhookSent' = w
    /\ emailSent' = e
    /\ logSent' = l

SetFlag(ch, v) ==
    SetFlags(IF ch = "webhook" THEN v ELSE webhookSent,
             IF ch = "email" THEN v ELSE emailSent,
             IF ch = "log" THEN v ELSE logSent)

\* trySend, line 81: shouldSend := !*sent && condition.
TrySendNoDedup(sent, condition) == condition

TrySendDecide(sent, condition) == ~sent /\ condition

\* handleSilenceEnd, lines 97-99: the recovery of a channel is decided by its
\* sent flag alone.
RecoveryRechecksEnabled(p, ch) == SentFlag(ch) /\ ChannelEnabled(nsnap[p], ch)

RecoveryByConfig(p, ch) == ChannelEnabled(nsnap[p], ch)

RecoveryDecide(p, ch) == SentFlag(ch)

\* `go sender()` / `go n.sendRecovery...()`: the sends start detached and the
\* caller moves on at once.
GoInline(p, ts, next) ==
    /\ tasks' = tasks \cup ts
    /\ npc' = [npc EXCEPT ![p] = [at |-> "inline", ch |-> "none"]]

GoSender(p, ts, next) ==
    /\ tasks' = tasks \cup ts
    /\ npc' = [npc EXCEPT ![p] = next]

\* The locals of a call are gone when it returns (and the snapshot of
\* handleSilenceStart when it returns to HandleEvent).
Locals(p, next) ==
    /\ nev' = [nev EXCEPT ![p] = IF next.at \in {"idle", "endSnap"} THEN NoEvent ELSE @]
    /\ nsnap' = [nsnap EXCEPT ![p] = IF next.at \in {"idle", "endSnap"} THEN NoConfig ELSE @]

\* HandleEvent entry, with the Snapshot() that opens handleSilenceStart (or
\* handleSilenceEnd when the event only reports a recovery).
HandleEvent(p, ev) ==
    /\ At(p, "idle")
    /\ IF ev.JustEntered
       THEN /\ nev' = [nev EXCEPT ![p] = ev]
            /\ nsnap' = [nsnap EXCEPT ![p] = cfg]
            /\ npc' = [npc EXCEPT ![p] = [at |-> "trySend", ch |-> "webhook"]]
       ELSE IF ev.JustRecovered
       THEN /\ nev' = [nev EXCEPT ![p] = ev]
            /\ nsnap' = [nsnap EXCEPT ![p] = cfg]
            /\ npc' = [npc EXCEPT ![p] = [at |-> "endLock", ch |-> "none"]]
       ELSE UNCHANGED <<nev, nsnap, npc>>
    /\ UNCHANGED <<cfg, webhookSent, emailSent, logSent, nrec,
                   tasks, startCount, epStarted, lastClear,
                   mvars, gvars, evars,
                   kvars, lvars, tvars>>

\* trySend, lines 80-85: the critical section that claims the flag.
TrySendLock(p) ==
    /\ At(p, "trySend")
    /\ LET ch == npc[p].ch
           shouldSend == TrySendDecide(SentFlag(ch), ChannelEnabled(nsnap[p], ch))
       IN /\ SetFlag(ch, IF shouldSend THEN TRUE ELSE SentFlag(ch))
          /\ startCount' = [startCount EXCEPT
                              ![ch] = IF shouldSend THEN Min(@ + 1, 2) ELSE @]
          /\ npc' = [npc EXCEPT ![p] = IF shouldSend THEN [at |-> "go", ch |-> ch]
                                       ELSE AfterTrySend(nev[p], ch)]
          /\ Locals(p, IF shouldSend THEN [at |-> "go", ch |-> ch]
                       ELSE AfterTrySend(nev[p], ch))
    /\ UNCHANGED <<cfg, nrec, tasks, epStarted, lastClear,
                   mvars, gvars, evars,
                   kvars, lvars, tvars>>

\* trySend, lines 86-88: go sender().
TrySendGo(p) ==
    /\ At(p, "go")
    /\ GoSender(p, {SendTask(npc[p].ch, nsnap[p])},
                AfterTrySend(nev[p], npc[p].ch))
    /\ Locals(p, AfterTrySend(nev[p], npc[p].ch))
    /\ UNCHANGED <<cfg, webhookSent, emailSent, logSent, nrec,
                   startCount, epStarted, lastClear,
                   mvars, gvars, evars,
                   kvars, lvars, tvars>>

\* handleSilenceEnd, line 93, for an event that reported both transitions.
HandleSilenceEndSnap(p) ==
    /\ At(p, "endSnap")
    /\ nsnap' = [nsnap EXCEPT ![p] = cfg]
    /\ nev' = [nev EXCEPT ![p] = [JustEntered |-> FALSE, JustRecovered |-> TRUE]]
    /\ npc' = [npc EXCEPT ![p] = [at |-> "endLock", ch |-> "none"]]
    /\ UNCHANGED <<cfg, webhookSent, emailSent, logSent,
                   nrec, tasks, startCount, epStarted, lastClear,
                   mvars, gvars, evars,
                   kvars, lvars, tvars>>

\* History: some start notification was claimed since the flags were last
\* cleared.
StartsClaimed == \E ch \in Channels : startCount[ch] > 0

\* handleSilenceEnd, lines 96-104: read and clear the three flags.
HandleSilenceEndLock(p) ==
    /\ At(p, "endLock")
    /\ nrec' = [nrec EXCEPT ![p] = {ch \in Channels : RecoveryDecide(p, ch)}]
    /\ SetFlags(FALSE, FALSE, FALSE)
    /\ epStarted' = [epStarted EXCEPT ![p] = {ch \in Channels : startCount[ch] > 0}]
    /\ startCount' = [ch \in Channels |-> 0]
    /\ lastClear' = IF StartsClaimed THEN "recovery" ELSE lastClear
    /\ npc' = [npc EXCEPT ![p] = [at |-> "endGo", ch |-> "none"]]
    /\ UNCHANGED <<cfg, nev, nsnap, tasks,
                   mvars, gvars, evars,
                   kvars, lvars, tvars>>

\* handleSilenceEnd, lines 106-116: the three conditional go statements.
HandleSilenceEndGo(p) ==
    /\ At(p, "endGo")
    /\ GoSender(p, {SendTask(ch, nsnap[p]) : ch \in nrec[p]}, Idle)
    /\ nrec' = [nrec EXCEPT ![p] = {}]
    /\ epStarted' = [epStarted EXCEPT ![p] = {}]
    /\ Locals(p, Idle)
    /\ UNCHANGED <<cfg, webhookSent, emailSent, logSent,
                   startCount, lastClear,
                   mvars, gvars, evars,
                   kvars, lvars, tvars>>

\* Reset, lines 120-126.
ResetKeepsLog ==
    /\ SetFlags(FALSE, FALSE, logSent)
    /\ startCount' = [ch \in Channels |-> 0]
    /\ lastClear' = IF StartsClaimed THEN "reset" ELSE lastClear
    /\ UNCHANGED <<cfg, npc, nev, nsnap, nrec, tasks, epStarted,
                   mvars, gvars, evars,
                   kvars, lvars, tvars>>

Reset ==
    /\ SetFlags(FALSE, FALSE, FALSE)
    /\ startCount' = [ch \in Channels |-> 0]
    /\ lastClear' = IF StartsClaimed THEN "reset" ELSE lastClear
    /\ UNCHANGED <<cfg, npc, nev, nsnap, nrec, tasks,
                   epStarted,
                   mvars, gvars, evars,
                   kvars, lvars, tvars>>

\* The configuration store replaces the live configuration.
SetConfig(c) ==
    /\ c # cfg
    /\ cfg' = c
    /\ UNCHANGED <<webhookSent, emailSent, logSent, npc, nev, nsnap,
                   nrec, tasks, startCount, epStarted, lastClear,
                   mvars, gvars, evars,
                   kvars, lvars, tvars>>

\* The network or log I/O of a detached send ends, with or without an error;
\* util.LogNotifyResult logs the error and nothing is returned to anyone.
SendFinish(t, ok) ==
    /\ t \in tasks
    /\ tasks' = tasks \ {t}
    /\ UNCHANGED <<cfg, webhookSent, emailSent, logSent, npc, nev,
                   nsnap, nrec, startCount, epStarted, lastClear,
                   mvars, gvars, evars,
                   kvars, lvars, tvars>>

CallerStep(p) ==
    \/ TrySendLock(p)
    \/ TrySendGo(p)
    \/ HandleSilenceEndSnap(p)
    \/ HandleSilenceEndLock(p)
    \/ HandleSilenceEndGo(p)

NotifierInit ==
    /\ cfg \in Configs
    /\ webhookSent = FALSE
    /\ emailSent = FALSE
    /\ logSent = FALSE
    /\ npc = [p \in Callers |-> Idle]
    /\ nev = [p \in Callers |-> NoEvent]
    /\ nsnap = [p \in Callers |-> NoConfig]
    /\ nrec = [p \in Callers |-> {}]
    /\ tasks = {}
    /\ startCount = [ch \in Channels |-> 0]
    /\ epStarted = [p \in Callers |-> {}]
    /\ lastClear = "none"

NotifierNext ==
    \/ \E p \in Callers, ev \in Events : HandleEvent(p, ev)
    \/ \E p \in Callers : TrySendLock(p)
    \/ \E p \in Callers : TrySendGo(p)
    \/ \E p \in Callers : HandleSilenceEndSnap(p)
    \/ \E p \in Callers : HandleSilenceEndLock(p)
    \/ \E p \in Callers : HandleSilenceEndGo(p)
    \/ Reset
    \/ \E c \in Configs : SetConfig(c)
    \/ \E t \in tasks, ok \in BOOLEAN : SendFinish(t, ok)

\* ------------------------------------------------- claims: SilenceNotifier
AllFlagsClear == ~webhookSent /\ ~emailSent /\ ~logSent

\* The step of caller p is the critical section of trySend for channel ch.
ClaimStep(p, ch) ==
    /\ npc[p] = [at |-> "trySend", ch |-> ch]
    /\ npc'[p] # npc[p]

\* C1: within one unresolved episode (no recovery event, no Reset() since the
\* flags were last clear) the HandleEvent calls with JustEntered, sequential
\* or concurrent, claim at most one start notification per channel, a call
\* whose snapshot has the channel enabled leaves exactly one claimed, and a
\* call goes on to `go sender()` exactly when it made the claim.
C1_DedupOnePerChannel ==
    [][ \A ch \in Channels :
          /\ startCount'[ch] <= 1
          /\ \A p \in Callers :
                ClaimStep(p, ch) =>
                  /\ ChannelEnabled(nsnap[p], ch) => startCount'[ch] = 1
                  /\ (npc'[p] = [at |-> "go", ch |-> ch])
                        <=> (startCount'[ch] = startCount[ch] + 1) ]_vars

\* Two calls of the same episode are both past the webhook trySend with the
\* webhook enabled in their snapshots, and one start was claimed.
C1_Witness ==
    /\ startCount["webhook"] = 1
    /\ npc[1] = [at |-> "go", ch |-> "webhook"]
    /\ npc[2] = [at |-> "trySend", ch |-> "email"]
    /\ nsnap[1].webhook /\ nsnap[2].webhook

\* C2: the recoveries a recovery event decides to send are exactly the
\* channels whose start notification was claimed in the episode it closes.
C2_RecoveryIffStarted ==
    \A p \in Callers : At(p, "endGo") => nrec[p] = epStarted[p]

\* A recovery is about to be dispatched for some channel but not for the
\* webhook, which was not started, although the recovery-time snapshot has
\* the webhook enabled.
C2_Witness ==
    \E p \in Callers :
        /\ At(p, "endGo")
        /\ nrec[p] # {}
        /\ "webhook" \notin nrec[p]
        /\ nsnap[p].webhook

\* C8: Reset() and the critical section of a recovery event leave all three
\* flags false, and a trySend that finds its flag false with the channel
\* enabled dispatches the start notification.
C8_ClearRearms ==
    [][ /\ (Reset \/ \E p \in Callers : HandleSilenceEndLock(p)) => AllFlagsClear'
        /\ \A p \in Callers, ch \in Channels :
              (ClaimStep(p, ch) /\ ~SentFlag(ch) /\ ChannelEnabled(nsnap[p], ch))
                 => npc'[p] = [at |-> "go", ch |-> ch] ]_vars

\* After a recovery event cleared the flags, a later event started all three
\* channels again.
C8_Witness ==
    /\ lastClear = "recovery"
    /\ \A ch \in Channels : startCount[ch] = 1 /\ SentFlag(ch)

\* C30: once Reset() has cleared the starts claimed in an unresolved episode,
\* a recovery event that follows with no start claimed in between decides to
\* send no recovery on any channel and dispatches nothing, and a HandleEvent
\* call with JustEntered that follows the Reset() claims and dispatches the
\* start notification of every channel its snapshot has enabled.
C30_ResetSuppressesRecovery ==
    [][ /\ \A p \in Callers :
              (/\ At(p, "endLock") /\ npc'[p] # npc[p]
               /\ lastClear = "reset" /\ ~StartsClaimed)
                 => nrec'[p] = {}
        /\ \A p \in Callers :
              (At(p, "endGo") /\ npc'[p] # npc[p] /\ nrec[p] = {})
                 => tasks' = tasks
        /\ \A p \in Callers, ch \in Channels :
              (/\ ClaimStep(p, ch)
               /\ lastClear = "reset"
               /\ startCount[ch] = 0
               /\ ChannelEnabled(nsnap[p], ch))
                 => /\ npc'[p] = [at |-> "go", ch |-> ch]
                    /\ startCount'[ch] = 1 ]_vars

\* Reset() was the last to clear claimed starts, a recovery event since then
\* found nothing to recover, and the same caller's next event started all
\* three channels again.
C30_Witness ==
    /\ lastClear = "reset"
    /\ \A ch \in Channels : startCount[ch] = 1 /\ SentFlag(ch)
    /\ \A p \in Callers : At(p, "idle")
    /\ tasks = {SendTask(ch, NoConfig) : ch \in Channels}

\* The step of caller p enters handleSilenceEnd: its Snapshot() of line 93.
RecoverySnapStep(p) ==
    /\ ~At(p, "endLock")
    /\ npc'[p].at = "endLock"

\* C31: a recovery event takes its snapshot of the configuration when
\* handleSilenceEnd begins, decides a recovery send for exactly the channels
\* whose sent flag is set, whether or not that snapshot still has the channel
\* enabled, and dispatches one send per decided channel with that same
\* snapshot.
C31_RecoveryIgnoresEnabled ==
    [][ \A p \in Callers :
          /\ RecoverySnapStep(p) => nsnap'[p] = cfg
          /\ (At(p, "endLock") /\ npc'[p] # npc[p])
                => /\ nrec'[p] = {ch \in Channels : SentFlag(ch)}
                   /\ nsnap'[p] = nsnap[p]
          /\ (At(p, "endGo") /\ npc'[p] # npc[p])
                => tasks' = tasks \cup {SendTask(ch, nsnap[p]) : ch \in nrec[p]} ]_vars

\* All three channels were started, every start send has ended, the store
\* then disabled all three, and the recovery event that followed is about to
\* dispatch all three recoveries with a snapshot that has none enabled.
C31_Witness ==
    /\ At(1, "endGo")
    /\ nrec[1] = Channels
    /\ epStarted[1] = Channels
    /\ \A ch \in Channels : ~ChannelEnabled(nsnap[1], ch)
    /\ cfg = nsnap[1]
    /\ tasks = {}

\* C9: a caller inside HandleEvent can always take its next step, whatever
\* sends are in flight, and the end of a send, with or without an error,
\* changes nothing but the set of sends in flight.
C9_SendsDetached ==
    [][ /\ \A p \in Callers : ~At(p, "idle") => ENABLED CallerStep(p)
        /\ (\E t \in tasks, ok \in BOOLEAN : SendFinish(t, ok))
              => UNCHANGED <<cfg, webhookSent, emailSent, logSent, npc, nev,
                             nsnap, nrec, startCount, epStarted, lastClear>> ]_vars

\* HandleEvent has returned in every caller while the webhook send it
\* dispatched is still in flight.
C9_Witness ==
    /\ [ch |-> "webhook"] \in tasks
    /\ webhookSent
    /\ \A p \in Callers : At(p, "idle")

\* ===================================================== SecretExpiryChecker
\* (the version with the doneCh rendezvous)
Clients == 1..NumClients
LoopIds == (NumClients + 1)..(NumClients + MaxLoops)
Threads == Clients \cup LoopIds

\* *types.GraphConfig as check() sees it: "none" is nil or lacks one of
\* TenantID, ClientID, ClientSecret; "A" and "B" are two complete ones.
CheckerConfigs == {"none", "A", "B"}

\* check, line 134, negated.
IsComplete(c) == c # "none"

ClientIdle == [op |-> "idle", at |-> "none"]
LoopDead == [op |-> "dead", at |-> "none"]

\* types.SecretExpiryInfo: the zero value, the two error shapes and a result.
ZeroInfo == [res |-> "zero", cfg |-> "none"]
NotConfiguredInfo == [res |-> "notconfigured", cfg |-> "none"]
Outcomes == {"ok", "error"}

\* Threads inside check() between its first critical section and its write.
InFlight == {t \in Threads : pc[t].at \in {"fetch", "write"}}

LiveLoops == {g \in LoopIds : pc[g].op = "loop"}

\* Start() calls that have set c.running and not yet returned.
PendingStarts == {p \in Clients : pc[p].op = "start" /\ pc[p].at # "ret"}

\* No UpdateConfig() under way in the thread.
NoArg == [cfg |-> "-", latest |-> FALSE]

\* UpdateConfig(c) by p, line 106: the argument of the call; the calls under
\* way in other threads are no longer the latest.
UpdateArgs(p, c) ==
    [q \in Clients |-> IF q = p THEN [cfg |-> c, latest |-> TRUE]
                                ELSE [uarg[q] EXCEPT !.latest = FALSE]]

\* check() returns in thread t: an UpdateConfig() call ends with it.
ArgsAfterCheck(t) ==
    [q \in Clients |-> IF q = t /\ pc[t].op = "update" THEN NoArg ELSE uarg[q]]

\* Start, line 60 comes right after the critical section: the initial check.
StartSkipsCheck == [op |-> "start", at |-> "go"]

StartProceed == [op |-> "start", at |-> "check"]

\* Start, line 49: if c.running, return.
StartAlways(isRunning) == FALSE

StartReturnsEarly(isRunning) == isRunning

\* Start, lines 48-57. A new run is begun only while a channel pair and a
\* goroutine slot are left for it.
StartLock(p) ==
    /\ pc[p] = ClientIdle
    /\ IF StartReturnsEarly(running)
       THEN /\ pc' = [pc EXCEPT ![p] = [op |-> "start", at |-> "ret"]]
            /\ UNCHANGED <<running, stopCh, doneCh, made, myrun>>
       ELSE /\ made < MaxRuns
            /\ Cardinality(LiveLoops) + Cardinality(PendingStarts) < MaxLoops
            /\ made' = made + 1
            /\ stopCh' = made + 1
            /\ doneCh' = made + 1
            /\ running' = TRUE
            /\ myrun' = [myrun EXCEPT ![p] = made + 1]
            /\ pc' = [pc EXCEPT ![p] = StartProceed]
    /\ UNCHANGED <<checking, closed, ccfg, tokenSource, cachedInfo, lastCheck,
                   panicked, lcfg, ldone, lsel, born, wrote, owed, uarg, offered,
                   nvars, gvars, evars,
                   kvars, lvars, tvars>>

\* Start, lines 63-75: the go statement; Start returns.
StartGo(p) ==
    /\ pc[p] = [op |-> "start", at |-> "go"]
    /\ LET free == {g \in LoopIds : pc[g] = LoopDead}
           g == CHOOSE x \in free : \A y \in free : x <= y
       IN /\ free # {}
          /\ pc' = [pc EXCEPT ![p] = ClientIdle, ![g] = [op |-> "loop", at |-> "select"]]
          /\ born' = [born EXCEPT ![g] = myrun[p]]
    /\ myrun' = [myrun EXCEPT ![p] = 0]
    /\ wrote' = [wrote EXCEPT ![p] = FALSE]
    /\ UNCHANGED <<running, checking, stopCh, doneCh, closed, ccfg, tokenSource,
                   cachedInfo, lastCheck, made, panicked, lcfg, ldone, lsel,
                   owed, uarg, offered,
                   nvars, gvars, evars,
                   kvars, lvars, tvars>>

\* Periodic goroutine, line 68: entering the select evaluates c.stopCh.
LoopSelect(g) ==
    /\ pc[g] = [op |-> "loop", at |-> "select"]
    /\ lsel' = [lsel EXCEPT ![g] = stopCh]
    /\ pc' = [pc EXCEPT ![g] = [op |-> "loop", at |-> "wait"]]
    /\ UNCHANGED <<running, checking, stopCh, doneCh, closed, ccfg, tokenSource,
                   cachedInfo, lastCheck, made, panicked, lcfg, ldone, born,
                   myrun, wrote, owed, uarg, offered,
                   nvars, gvars, evars,
                   kvars, lvars, tvars>>

\* Periodic goroutine, lines 69-70: the ticker fires, 24 hours after the
\* last tick, and the select takes it. A goroutine whose stop channel is
\* closed leaves at once, so the tick comes first or not at all; a tick that
\* is ready together with the close is the tick being taken just before it.
LoopTick(g) ==
    /\ pc[g] = [op |-> "loop", at |-> "wait"]
    /\ lsel[g] \notin closed
    /\ pc' = [pc EXCEPT ![g] = [op |-> "loop", at |-> "check"]]
    /\ lsel' = [lsel EXCEPT ![g] = 0]
    /\ wrote' = [wrote EXCEPT ![g] = FALSE]
    /\ UNCHANGED <<running, checking, stopCh, doneCh, closed, ccfg, tokenSource,
                   cachedInfo, lastCheck, made, panicked, lcfg, ldone, born,
                   myrun, owed, uarg, offered,
                   nvars, gvars, evars,
                   kvars, lvars, tvars>>

\* Periodic goroutine, lines 71-72: the stop channel it waits on is closed.
LoopExit(g) ==
    /\ pc[g] = [op |-> "loop", at |-> "wait"]
    /\ lsel[g] \in closed
    /\ pc' = [pc EXCEPT ![g] = LoopDead]
    /\ lsel' = [lsel EXCEPT ![g] = 0]
    /\ born' = [born EXCEPT ![g] = 0]
    /\ wrote' = [wrote EXCEPT ![g] = FALSE]
    /\ UNCHANGED <<running, checking, stopCh, doneCh, closed, ccfg, tokenSource,
                   cachedInfo, lastCheck, made, panicked, lcfg, ldone, myrun,
                   owed, uarg, offered,
                   nvars, gvars, evars,
                   kvars, lvars, tvars>>

\* Stop, line 93: wait only if a check was seen in progress.
StopNeverWaits(chk, dch) == FALSE

StopWaits(chk, dch) == chk /\ dch # 0

\* Stop, lines 81-90.
StopLock(p) ==
    /\ pc[p] = ClientIdle
    /\ IF ~running
       THEN /\ pc' = [pc EXCEPT ![p] = [op |-> "stop", at |-> "ret"]]
            /\ UNCHANGED <<running, closed, panicked, ldone, owed>>
       ELSE /\ closed' = closed \cup {stopCh}
            /\ panicked' = (panicked \/ stopCh \in closed)
            /\ running' = FALSE
            /\ owed' = [owed EXCEPT ![p] = InFlight]
            /\ ldone' = [ldone EXCEPT ![p] = IF StopWaits(checking, doneCh)
                                             THEN doneCh ELSE 0]
            /\ pc' = [pc EXCEPT ![p] = IF StopWaits(checking, doneCh)
                                       THEN [op |-> "stop", at |-> "park"]
                                       ELSE [op |-> "stop", at |-> "done"]]
    /\ UNCHANGED <<checking, stopCh, doneCh, ccfg, tokenSource, cachedInfo,
                   lastCheck, made, lcfg, lsel, born, myrun, wrote, uarg, offered,
                   nvars, gvars, evars,
                   kvars, lvars, tvars>>

\* Start, lines 50-51, Stop, lines 83-84 ("ret": the call found nothing to
\* do) and Stop, line 96 ("done"): the call returns.
Return(p) ==
    /\ pc[p].at \in {"ret", "done"}
    /\ pc' = [pc EXCEPT ![p] = ClientIdle]
    /\ owed' = [owed EXCEPT ![p] = {}]
    /\ UNCHANGED <<running, checking, stopCh, doneCh, closed, ccfg, tokenSource,
                   cachedInfo, lastCheck, made, panicked, lcfg, ldone, lsel,
                   born, myrun, wrote, uarg, offered,
                   nvars, gvars, evars,
                   kvars, lvars, tvars>>

\* Stop, line 94: the receive parks the caller on doneCh.
StopPark(p) ==
    /\ pc[p] = [op |-> "stop", at |-> "park"]
    /\ pc' = [pc EXCEPT ![p] = [op |-> "stop", at |-> "parked"]]
    /\ UNCHANGED <<running, checking, stopCh, doneCh, closed, ccfg, tokenSource,
                   cachedInfo, lastCheck, made, panicked, lcfg, ldone, lsel,
                   born, myrun, wrote, owed, uarg, offered,
                   nvars, gvars, evars,
                   kvars, lvars, tvars>>

\* UpdateConfig, line 109: c.tokenSource = nil.
UpdateKeepsTokenSource(ts) == ts

UpdateTokenSource(ts) == "nil"

\* UpdateConfig, lines 107-110.
UpdateLock(p, c) ==
    /\ pc[p] = ClientIdle
    /\ c \in offered
    /\ ccfg' = c
    /\ tokenSource' = UpdateTokenSource(tokenSource)
    /\ uarg' = UpdateArgs(p, c)
    /\ pc' = [pc EXCEPT ![p] = [op |-> "update", at |-> "check"]]
    /\ UNCHANGED <<running, checking, stopCh, doneCh, closed, cachedInfo,
                   lastCheck, made, panicked, lcfg, ldone, lsel, born, myrun,
                   wrote, owed, offered,
                   nvars, gvars, evars,
                   kvars, lvars, tvars>>

\* check, lines 117-121, and the test of line 134.
CheckBegin(t) ==
    /\ pc[t].at = "check"
    /\ checking' = TRUE
    /\ lcfg' = [lcfg EXCEPT ![t] = ccfg]
    /\ ldone' = [ldone EXCEPT ![t] = doneCh]
    /\ pc' = [pc EXCEPT ![t].at = IF IsComplete(ccfg) THEN "fetch" ELSE "write"]
    /\ UNCHANGED <<running, stopCh, doneCh, closed, ccfg, tokenSource, cachedInfo,
                   lastCheck, made, panicked, lsel, born, myrun, wrote, owed, uarg, offered,
                   nvars, gvars, evars,
                   kvars, lvars, tvars>>

\* fetchExpiryInfo, lines 169-179: take the cached token source or build one
\* from the check's cfg.
FetchTokenSource(t) ==
    /\ pc[t].at = "fetch"
    /\ tokenSource' = IF tokenSource = "nil" THEN lcfg[t] ELSE tokenSource
    /\ pc' = [pc EXCEPT ![t].at = "write"]
    /\ UNCHANGED <<running, checking, stopCh, doneCh, closed, ccfg, cachedInfo,
                   lastCheck, made, panicked, lcfg, ldone, lsel, born, myrun,
                   wrote, owed, uarg, offered,
                   nvars, gvars, evars,
                   kvars, lvars, tvars>>

\* check, lines 135-140 or 144-154 (after the token and API requests of
\* fetchExpiryInfo, whose outcome is the parameter), then the first half of
\* the deferred function, lines 124-126. The two critical sections follow
\* each other with nothing in between.
CheckWrite(t, outcome) ==
    /\ pc[t].at = "write"
    /\ IF IsComplete(lcfg[t])
       THEN cachedInfo' = [res |-> outcome, cfg |-> lcfg[t]]
       ELSE outcome = "error" /\ cachedInfo' = NotConfiguredInfo
    /\ lastCheck' = "set"
    /\ checking' = FALSE
    /\ wrote' = [wrote EXCEPT ![t] = TRUE]
    /\ owed' = [p \in Clients |-> owed[p] \ {t}]
    /\ lcfg' = [lcfg EXCEPT ![t] = "none"]
    /\ pc' = [pc EXCEPT ![t].at = "signal"]
    /\ UNCHANGED <<running, stopCh, doneCh, closed, ccfg, tokenSource, made,
                   panicked, ldone, lsel, born, myrun, uarg, offered,
                   nvars, gvars, evars,
                   kvars, lvars, tvars>>

\* Where a thread goes when check() returns.
AfterCheck(t) ==
    CASE pc[t].op = "start"  -> [op |-> "start", at |-> "go"]
      [] pc[t].op = "update" -> ClientIdle
      [] pc[t].op = "loop"   -> [op |-> "loop", at |-> "select"]

\* The Stop() calls parked in a receive on channel ch (never on nil).
Receivers(ch) ==
    {q \in Clients : pc[q] = [op |-> "stop", at |-> "parked"] /\ ldone[q] = ch /\ ch # 0}

\* check, lines 128-131: the non-blocking send on the check's doneCh. It
\* goes through iff a receiver is parked on that channel; that Stop() has
\* received and goes on to return.
CheckSignal(t) ==
    /\ pc[t].at = "signal"
    /\ IF Receivers(ldone[t]) = {}
       THEN /\ pc' = [pc EXCEPT ![t] = AfterCheck(t)]
            /\ ldone' = [ldone EXCEPT ![t] = 0]
            /\ UNCHANGED owed
       ELSE \E q \in Receivers(ldone[t]) :
            /\ pc' = [pc EXCEPT ![t] = AfterCheck(t),
                                 ![q] = [op |-> "stop", at |-> "done"]]
            /\ ldone' = [ldone EXCEPT ![t] = 0, ![q] = 0]
            /\ UNCHANGED owed
    /\ wrote' = [wrote EXCEPT ![t] = IF pc[t].op = "start" THEN @ ELSE FALSE]
    /\ uarg' = ArgsAfterCheck(t)
    /\ UNCHANGED <<running, checking, stopCh, doneCh, closed, ccfg, tokenSource,
                   cachedInfo, lastCheck, made, panicked, lcfg, lsel, born,
                   myrun, offered,
                   nvars, gvars, evars,
                   kvars, lvars, tvars>>

CheckerInit ==
    /\ running = FALSE
    /\ checking = FALSE
    /\ stopCh = 0
    /\ doneCh = 0
    /\ closed = {}
    /\ offered \in SUBSET CheckerConfigs
    /\ ccfg \in offered
    /\ tokenSource = "nil"
    /\ cachedInfo = ZeroInfo
    /\ lastCheck = "never"
    /\ made = 0
    /\ panicked = FALSE
    /\ pc = [t \in Threads |-> IF t \in Clients THEN ClientIdle ELSE LoopDead]
    /\ lcfg = [t \in Threads |-> "none"]
    /\ ldone = [t \in Threads |-> 0]
    /\ lsel = [t \in Threads |-> 0]
    /\ born = [t \in Threads |-> 0]
    /\ myrun = [t \in Threads |-> 0]
    /\ wrote = [t \in Threads |-> FALSE]
    /\ owed = [p \in Clients |-> {}]
    /\ uarg = [p \in Clients |-> NoArg]

CheckerNext ==
    \/ \E p \in Clients : StartLock(p)
    \/ \E p \in Clients : StartGo(p)
    \/ \E g \in LoopIds : LoopSelect(g)
    \/ \E g \in LoopIds : LoopTick(g)
    \/ \E g \in LoopIds : LoopExit(g)
    \/ \E p \in Clients : StopLock(p)
    \/ \E p \in Clients : StopPark(p)
    \/ \E p \in Clients : Return(p)
    \/ \E p \in Clients, c \in CheckerConfigs : UpdateLock(p, c)
    \/ \E t \in Threads : CheckBegin(t)
    \/ \E t \in Threads : FetchTokenSource(t)
    \/ \E t \in Threads, o \in Outcomes : CheckWrite(t, o)
    \/ \E t \in Threads : CheckSignal(t)

\* ===================================================== SecretExpiryChecker
\* (internal/notify/graph_expiry.go: one stop channel, made by the
\* constructor; no doneCh, no checking flag). It shares the variables of the
\* version above; checking, doneCh, ldone, born, myrun and owed stay unused.
\* A close of a closed channel panics and ends the process: nothing is
\* enabled once panicked holds.

\* Start, lines 43-49.
LegacyStartLock(p) ==
    /\ ~panicked
    /\ pc[p] = ClientIdle
    /\ IF running
       THEN /\ pc' = [pc EXCEPT ![p] = [op |-> "start", at |-> "ret"]]
            /\ UNCHANGED running
       ELSE /\ Cardinality(LiveLoops) + Cardinality(PendingStarts) < MaxLoops
            /\ running' = TRUE
            /\ pc' = [pc EXCEPT ![p] = [op |-> "start", at |-> "check"]]
    /\ UNCHANGED <<checking, stopCh, doneCh, closed, ccfg, tokenSource, cachedInfo,
                   lastCheck, made, panicked, lcfg, ldone, lsel, born, myrun,
                   wrote, owed, uarg, offered,
                   nvars, gvars, evars,
                   kvars, lvars, tvars>>

\* Start, lines 55-68: the go statement, then Start() returns.
LegacyStartGo(p) ==
    /\ ~panicked
    /\ pc[p] = [op |-> "start", at |-> "go"]
    /\ \E g \in LoopIds :
          /\ pc[g] = LoopDead
          /\ \A h \in LoopIds : pc[h] = LoopDead => g <= h
          /\ pc' = [pc EXCEPT ![p] = ClientIdle,
                              ![g] = [op |-> "loop", at |-> "select"]]
    /\ wrote' = [wrote EXCEPT ![p] = FALSE]
    /\ UNCHANGED <<running, checking, stopCh, doneCh, closed, ccfg, tokenSource,
                   cachedInfo, lastCheck, made, panicked, lcfg, ldone, lsel,
                   born, myrun, owed, uarg, offered,
                   nvars, gvars, evars,
                   kvars, lvars, tvars>>

\* Start, lines 60-63: the select evaluates c.stopCh and waits.
LegacyLoopSelect(g) ==
    /\ ~panicked
    /\ pc[g] = [op |-> "loop", at |-> "select"]
    /\ lsel' = [lsel EXCEPT ![g] = stopCh]
    /\ pc' = [pc EXCEPT ![g].at = "wait"]
    /\ UNCHANGED <<running, checking, stopCh, doneCh, closed, ccfg, tokenSource,
                   cachedInfo, lastCheck, made, panicked, lcfg, ldone, born,
                   myrun, wrote, owed, uarg, offered,
                   nvars, gvars, evars,
                   kvars, lvars, tvars>>

\* Start, lines 61-62: the ticker case, taken before the stop case is ready.
LegacyLoopTick(g) ==
    /\ ~panicked
    /\ pc[g] = [op |-> "loop", at |-> "wait"]
    /\ lsel[g] \notin closed
    /\ pc' = [pc EXCEPT ![g].at = "check"]
    /\ UNCHANGED <<running, checking, stopCh, doneCh, closed, ccfg, tokenSource,
                   cachedInfo, lastCheck, made, panicked, lcfg, ldone, lsel,
                   born, myrun, wrote, owed, uarg, offered,
                   nvars, gvars, evars,
                   kvars, lvars, tvars>>

\* Start, lines 63-64: the stop case, ready once the channel is closed.
LegacyLoopExit(g) ==
    /\ ~panicked
    /\ pc[g] = [op |-> "loop", at |-> "wait"]
    /\ lsel[g] \in closed
    /\ pc' = [pc EXCEPT ![g] = LoopDead]
    /\ lsel' = [lsel EXCEPT ![g] = 0]
    /\ UNCHANGED <<running, checking, stopCh, doneCh, closed, ccfg, tokenSource,
                   cachedInfo, lastCheck, made, panicked, lcfg, ldone, born,
                   myrun, wrote, owed, uarg, offered,
                   nvars, gvars, evars,
                   kvars, lvars, tvars>>

\* Stop, lines 72-79.
LegacyStopLock(p) ==
    /\ ~panicked
    /\ pc[p] = ClientIdle
    /\ IF ~running
       THEN /\ pc' = [pc EXCEPT ![p] = [op |-> "stop", at |-> "ret"]]
            /\ UNCHANGED <<running, closed, panicked>>
       ELSE /\ closed' = closed \cup {stopCh}
            /\ panicked' = (stopCh \in closed)
            /\ running' = (stopCh \in closed)
            /\ pc' = [pc EXCEPT ![p] = [op |-> "stop", at |-> "done"]]
    /\ UNCHANGED <<checking, stopCh, doneCh, ccfg, tokenSource, cachedInfo,
                   lastCheck, made, lcfg, ldone, lsel, born, myrun, wrote, owed,
                   uarg, offered,
                   nvars, gvars, evars,
                   kvars, lvars, tvars>>

\* Start, lines 45-46, and Stop, line 79: the call returns.
LegacyReturn(p) ==
    /\ ~panicked
    /\ pc[p].at \in {"ret", "done"}
    /\ pc' = [pc EXCEPT ![p] = ClientIdle]
    /\ UNCHANGED <<running, checking, stopCh, doneCh, closed, ccfg, tokenSource,
                   cachedInfo, lastCheck, made, panicked, lcfg, ldone, lsel,
                   born, myrun, wrote, owed, uarg, offered,
                   nvars, gvars, evars,
                   kvars, lvars, tvars>>

\* UpdateConfig, lines 90-93.
LegacyUpdateLock(p, c) ==
    /\ ~panicked
    /\ pc[p] = ClientIdle
    /\ c \in offered
    /\ ccfg' = c
    /\ tokenSource' = "nil"
    /\ uarg' = UpdateArgs(p, c)
    /\ pc' = [pc EXCEPT ![p] = [op |-> "update", at |-> "check"]]
    /\ UNCHANGED <<running, checking, stopCh, doneCh, closed, cachedInfo,
                   lastCheck, made, panicked, lcfg, ldone, lsel, born, myrun,
                   wrote, owed, offered,
                   nvars, gvars, evars,
                   kvars, lvars, tvars>>

\* check, lines 100-104.
LegacyCheckBegin(t) ==
    /\ ~panicked
    /\ pc[t].at = "check"
    /\ lcfg' = [lcfg EXCEPT ![t] = ccfg]
    /\ pc' = [pc EXCEPT ![t].at = IF IsComplete(ccfg) THEN "fetch" ELSE "write"]
    /\ UNCHANGED <<running, checking, stopCh, doneCh, closed, ccfg, tokenSource,
                   cachedInfo, lastCheck, made, panicked, ldone, lsel, born,
                   myrun, wrote, owed, uarg, offered,
                   nvars, gvars, evars,
                   kvars, lvars, tvars>>

\* fetchExpiryInfo, lines 141-151.
LegacyFetchTokenSource(t) ==
    /\ ~panicked
    /\ pc[t].at = "fetch"
    /\ tokenSource' = IF tokenSource = "nil" THEN lcfg[t] ELSE tokenSource
    /\ pc' = [pc EXCEPT ![t].at = "write"]
    /\ UNCHANGED <<running, checking, stopCh, doneCh, closed, ccfg, cachedInfo,
                   lastCheck, made, panicked, lcfg, ldone, lsel, born, myrun,
                   wrote, owed, uarg, offered,
                   nvars, gvars, evars,
                   kvars, lvars, tvars>>

\* check, lines 105-111 or 115-124, then check() returns.
LegacyCheckWrite(t, outcome) ==
    /\ ~panicked
    /\ pc[t].at = "write"
    /\ IF IsComplete(lcfg[t])
       THEN cachedInfo' = [res |-> outcome, cfg |-> lcfg[t]]
       ELSE outcome = "error" /\ cachedInfo' = NotConfiguredInfo
    /\ lastCheck' = "set"
    /\ wrote' = [wrote EXCEPT ![t] = (pc[t].op = "start")]
    /\ lcfg' = [lcfg EXCEPT ![t] = "none"]
    /\ pc' = [pc EXCEPT ![t] = AfterCheck(t)]
    /\ uarg' = ArgsAfterCheck(t)
    /\ UNCHANGED <<running, checking, stopCh, doneCh, closed, ccfg, tokenSource,
                   made, panicked, ldone, lsel, born, myrun, owed, offered,
                   nvars, gvars, evars,
                   kvars, lvars, tvars>>

\* NewSecretExpiryChecker, lines 34-39: the only make of stopCh.
LegacyInit ==
    /\ running = FALSE
    /\ checking = FALSE
    /\ stopCh = 1
    /\ doneCh = 0
    /\ closed = {}
    /\ offered \in SUBSET CheckerConfigs
    /\ ccfg \in offered
    /\ tokenSource = "nil"
    /\ cachedInfo = ZeroInfo
    /\ lastCheck = "never"
    /\ made = 1
    /\ panicked = FALSE
    /\ pc = [t \in Threads |-> IF t \in Clients THEN ClientIdle ELSE LoopDead]
    /\ lcfg = [t \in Threads |-> "none"]
    /\ ldone = [t \in Threads |-> 0]
    /\ lsel = [t \in Threads |-> 0]
    /\ born = [t \in Threads |-> 0]
    /\ myrun = [t \in Threads |-> 0]
    /\ wrote = [t \in Threads |-> FALSE]
    /\ owed = [p \in Clients |-> {}]
    /\ uarg = [p \in Clients |-> NoArg]

LegacyNext ==
    \/ \E p \in Clients : LegacyStartLock(p)
    \/ \E p \in Clients : LegacyStartGo(p)
    \/ \E g \in LoopIds : LegacyLoopSelect(g)
    \/ \E g \in LoopIds : LegacyLoopTick(g)
    \/ \E g \in LoopIds : LegacyLoopExit(g)
    \/ \E p \in Clients : LegacyStopLock(p)
    \/ \E p \in Clients : LegacyReturn(p)
    \/ \E p \in Clients, c \in CheckerConfigs : LegacyUpdateLock(p, c)
    \/ \E t \in Threads : LegacyCheckBegin(t)
    \/ \E t \in Threads : LegacyFetchTokenSource(t)
    \/ \E t \in Threads, o \in Outcomes : LegacyCheckWrite(t, o)

\* --------------------------------------------- claims: SecretExpiryChecker
\* The monitor has been stopped and every call on it has returned: no
\* Start(), Stop() or UpdateConfig() is under way.
StoppedQuiet ==
    /\ ~running
    /\ closed # {}
    /\ \A p \in Clients : pc[p] = ClientIdle

\* A periodic goroutine that will notice the close of the current stop
\* channel: it waits on it, or has yet to evaluate c.stopCh again.
Listening(g) ==
    /\ pc[g].op = "loop"
    /\ pc[g].at = "wait" => lsel[g] = stopCh
    /\ stopCh \notin closed

\* C3: a Stop() that stopped a Running monitor returns only when every check
\* that was between its first critical section and its write of the cached
\* info at the time Stop() took the lock has completed that write.
C3_StopWaitsForInFlight ==
    \A p \in Clients : pc[p] = [op |-> "stop", at |-> "done"] => owed[p] = {}

\* C4: once Stop() has returned and until the monitor is started again, the
\* periodic task does not write the cached info or the last-check timestamp
\* (no other call on the monitor being under way).
C4_NoWriteAfterStop ==
    [][ \A g \in LoopIds :
          (pc[g] = [op |-> "loop", at |-> "write"] /\ pc'[g] # pc[g])
             => ~StoppedQuiet ]_vars

\* C5: no stop channel is closed twice, and whenever the monitor is Running
\* and no Start() is still on its way, a periodic task is alive that listens
\* for the close of the current stop channel.
C5_RestartCycles ==
    /\ ~panicked
    /\ (running /\ PendingStarts = {}) => \E g \in LoopIds : Listening(g)

\* C6: a periodic task only ever waits on the stop channel of the run whose
\* Start() launched it, so that the Stop() of that run ends it.
C6_NoTaskOutlivesItsRun ==
    \A g \in LoopIds : pc[g] = [op |-> "loop", at |-> "wait"] => lsel[g] = born[g]

\* A step of thread p inside the check() of its UpdateConfig() call.
UpdateStep(p) ==
    \/ CheckBegin(p)
    \/ FetchTokenSource(p)
    \/ \E o \in Outcomes : CheckWrite(p, o)
    \/ CheckSignal(p)

\* C11: UpdateConfig(newCfg) stores newCfg and clears the token source in
\* one critical section; its check() snapshots the configuration stored at
\* that moment, which is newCfg unless a later UpdateConfig() has stored
\* another one meanwhile; the call returns only after this check has written
\* its result, and every step of it can be taken whether the monitor is
\* Running or Stopped and whatever the periodic goroutines do.
C11_UpdateConfigRechecks ==
    [][ \A p \in Clients :
          /\ (pc[p] = ClientIdle /\ pc'[p].op = "update")
                => /\ ccfg' = uarg'[p].cfg
                   /\ tokenSource' = "nil"
                   /\ pc'[p] = [op |-> "update", at |-> "check"]
          /\ (pc[p] = [op |-> "update", at |-> "check"] /\ pc'[p] # pc[p])
                => /\ lcfg'[p] = ccfg
                   /\ uarg[p].latest => lcfg'[p] = uarg[p].cfg
          /\ (pc[p].op = "update" /\ pc'[p].op # "update")
                => wrote[p] /\ pc'[p] = ClientIdle
          /\ pc[p].op = "update" => ENABLED UpdateStep(p) ]_vars

\* UpdateConfig("A") on a Stopped monitor is about to return: its check
\* used "A", built the token source from it and wrote the info.
C11_Witness ==
    /\ ~running
    /\ pc[1] = [op |-> "update", at |-> "signal"]
    /\ uarg[1] = [cfg |-> "A", latest |-> TRUE]
    /\ wrote[1] /\ ccfg = "A" /\ tokenSource = "A" /\ cachedInfo.cfg = "A"

\* C11 as stated: the check of UpdateConfig(newCfg) uses newCfg.
C11_CheckUsesNewCfg ==
    \A p \in Clients :
       (pc[p].op = "update" /\ pc[p].at \in {"fetch", "write"})
          => lcfg[p] = uarg[p].cfg

\* The monitor state Start() and Stop() could touch, apart from the caller's
\* own position.
MonitorState ==
    <<running, checking, stopCh, doneCh, closed, ccfg, tokenSource, cachedInfo,
      lastCheck, made, panicked, lcfg, ldone, lsel, born, myrun, wrote, owed,
      uarg>>

\* C7: a Start() that finds the monitor Running and a Stop() that finds it
\* Stopped go straight to their return and change nothing: no channel is
\* made or closed, no check is begun, no goroutine is launched.
C7_IdempotentStartStop ==
    [][ \A p \in Clients :
          /\ (pc[p] = ClientIdle /\ pc'[p].op = "start" /\ running)
                => /\ pc'[p] = [op |-> "start", at |-> "ret"]
                   /\ UNCHANGED MonitorState
                   /\ \A t \in Threads \ {p} : pc'[t] = pc[t]
          /\ (pc[p] = ClientIdle /\ pc'[p].op = "stop" /\ ~running)
                => /\ pc'[p] = [op |-> "stop", at |-> "ret"]
                   /\ UNCHANGED MonitorState
                   /\ \A t \in Threads \ {p} : pc'[t] = pc[t] ]_vars

\* A Start() on the Running monitor and a Stop() on the Stopped monitor are
\* returning at the same time.
C7_Witness ==
    /\ pc[1] = [op |-> "start", at |-> "ret"]
    /\ pc[2] = [op |-> "stop", at |-> "ret"]

\* C10: a Start() that set the monitor Running reaches its go statement, and
\* so its return, only with one complete check of its own behind it, the
\* cached info and the last-check timestamp written; and a periodic task is
\* launched only by such a Start().
C10_FirstCheckBeforeReturn ==
    [][ /\ \A p \in Clients :
              pc'[p] = [op |-> "start", at |-> "go"]
                 => wrote'[p] /\ lastCheck' = "set" /\ cachedInfo' # ZeroInfo
        /\ \A g \in LoopIds :
              (pc[g] = LoopDead /\ pc'[g] # LoopDead)
                 => \E p \in Clients : /\ pc[p] = [op |-> "start", at |-> "go"]
                                       /\ wrote[p]
                                       /\ pc'[p] = ClientIdle ]_vars

\* Start() has returned: the monitor is Running, the cached info is written
\* and the periodic task of this run is alive.
C10_Witness ==
    /\ running
    /\ \A p \in Clients : pc[p] = ClientIdle
    /\ lastCheck = "set" /\ cachedInfo # ZeroInfo
    /\ \E g \in LoopIds : pc[g].op = "loop" /\ born[g] = made

\* The steps the program takes by itself: everything but a new call of
\* Start(), Stop() or UpdateConfig() by a client.
CheckerProgress ==
    \/ \E p \in Clients : StartGo(p) \/ StopPark(p) \/ Return(p)
    \/ \E g \in LoopIds : LoopSelect(g) \/ LoopTick(g) \/ LoopExit(g)
    \/ \E t \in Threads : CheckBegin(t) \/ FetchTokenSource(t) \/ CheckSignal(t)
    \/ \E t \in Threads, o \in Outcomes : CheckWrite(t, o)

\* C26: a Stop() that decided to wait for the in-flight check and is parked
\* in its receive on doneCh is never left stranded: while it is parked the
\* program can still move by itself (a check that has yet to send, a
\* goroutine still running), so that the completion signal reaches it
\* without any new call on the monitor.
C26_StopNeverStranded ==
    \A q \in Clients :
        pc[q] = [op |-> "stop", at |-> "parked"] => ENABLED CheckerProgress

\* The clients of a monitor call UpdateConfig() only.
UpdateNext ==
    \/ \E p \in Clients, c \in CheckerConfigs : UpdateLock(p, c)
    \/ \E t \in Clients : CheckBegin(t)
    \/ \E t \in Clients : FetchTokenSource(t)
    \/ \E t \in Clients, o \in Outcomes : CheckWrite(t, o)
    \/ \E t \in Clients : CheckSignal(t)

\* C27: UpdateConfig() clears the token source when it stores its argument,
\* so a cached token source was cached after the latest UpdateConfig(); when
\* that call stored a complete configuration, the cached token source is
\* built from it.
C27_TokenSourceFromNewCfg ==
    (tokenSource # "nil" /\ IsComplete(ccfg)) => tokenSource = ccfg

\* C28: when every UpdateConfig() call has returned and no check is in
\* flight, a cached result of a request to the identity API, for a complete
\* stored configuration, is the result of a check of that configuration.
C28_InfoFromNewCfg ==
    (/\ \A t \in Threads : pc[t].at \notin {"check", "fetch", "write", "signal"}
     /\ IsComplete(ccfg)
     /\ cachedInfo.res \in Outcomes)
       => cachedInfo.cfg = ccfg

\* ============================================================= GraphClient
\* SendMail and sendWithRetry of one mail client; times are in seconds.
maxRetries == 3
initialRetryWait == 1
maxRetryWait == 30

MaxRecipients == 2     \* length of the recipients slice given to SendMail

\* A string is the sequence of its characters; " " stands for white space.
Addresses == {<<>>, <<" ">>, <<"a">>, <<" ", "b", " ">>}

RECURSIVE TrimLeft(_)
TrimLeft(str) ==
    IF str # <<>> /\ Head(str) = " " THEN TrimLeft(Tail(str)) ELSE str

RECURSIVE TrimRight(_)
TrimRight(str) ==
    IF str # <<>> /\ str[Len(str)] = " "
    THEN TrimRight(SubSeq(str, 1, Len(str) - 1))
    ELSE str

\* strings.TrimSpace
TrimSpace(str) == TrimRight(TrimLeft(str))

\* SendMail, lines 91-99: the trimmed addresses that are not empty, in order.
RECURSIVE FilterRecipients(_)
FilterRecipients(recipients) ==
    IF recipients = <<>> THEN <<>>
    ELSE IF TrimSpace(Head(recipients)) # <<>>
         THEN <<TrimSpace(Head(recipients))>> \o FilterRecipients(Tail(recipients))
         ELSE FilterRecipients(Tail(recipients))

RecipientLists ==
    UNION {[1..n -> Addresses] : n \in 0..MaxRecipients}

\* What the endpoint does with one request: code 0 is an error of
\* httpClient.Do (no response), any other code the status of the response.
StatusCodes == {200, 202, 204, 400, 429, 500, 503}
Bodies == {"x", "y"}
Responses ==
    {[code |-> 0, body |-> ""]} \cup [code : StatusCodes, body : Bodies]

\* error values: kind is the text of the format string; wrapped marks the
\* prefix "max retries exceeded: " put before the error by %w.
NoErr == [kind |-> "nil", code |-> 0, body |-> "", wrapped |-> FALSE]
Errorf(kind, code, body) ==
    [kind |-> kind, code |-> code, body |-> body, wrapped |-> FALSE]
MaxRetriesExceeded(err) == [err EXCEPT !.wrapped = TRUE]

\* sendWithRetry, lines 154-162: the switch on resp.StatusCode.
IsSuccess(code) == code \in {202, 200, 204}
IsTransient(code) == code \in {429, 503}

\* sendWithRetry, lines 133-137: retryWait after a sleep.
NextWait(w) == IF w * 2 > maxRetryWait THEN maxRetryWait ELSE w * 2

\* sendWithRetry, line 130: the loop condition.
LoopForever(a) == TRUE

LoopCondition(a) == a <= maxRetries

\* sendWithRetry, lines 148 and 158: lastErr = ...
KeepFirstErr(prev, err) == IF prev = NoErr THEN err ELSE prev

SetLastErr(prev, err) == err

\* sendWithRetry, lines 155-156 against lines 160-161.
RetryEveryFailure(code) == ~IsSuccess(code)

ShouldRetry(code) == IsTransient(code)

\* SendMail, lines 86-117, into sendWithRetry, lines 120-128.
\* SendMail, line 101: the test made on the filtered list.
SendsToAnyList(to) == FALSE
NoValidRecipients(to) == Len(to) = 0

SendMail(recipients) ==
    /\ mailpc = "idle"
    /\ IF Len(recipients) = 0
       THEN /\ mailResult' = Errorf("no recipients specified", 0, "")
            /\ mailpc' = "done"
            /\ UNCHANGED <<toRecipients, attempt, retryWait, lastErr>>
       ELSE /\ toRecipients' = FilterRecipients(recipients)
            /\ IF NoValidRecipients(toRecipients')
               THEN /\ mailResult' = Errorf("no valid recipients after filtering", 0, "")
                    /\ mailpc' = "done"
                    /\ UNCHANGED <<attempt, retryWait, lastErr>>
               ELSE /\ attempt' = 0
                    /\ retryWait' = initialRetryWait
                    /\ lastErr' = NoErr
                    /\ mailpc' = "sleep"
                    /\ UNCHANGED mailResult
    /\ UNCHANGED <<sleeps, answers, urlOK, nvars, mvars, evars,
                   kvars, lvars, tvars>>

\* sendWithRetry, lines 130-137: the loop is entered; every attempt but the
\* first sleeps before its request.
SendWithRetrySleep ==
    /\ mailpc = "sleep"
    /\ LoopCondition(attempt)
    /\ IF attempt > 0
       THEN /\ sleeps' = Append(sleeps, retryWait)
            /\ retryWait' = NextWait(retryWait)
       ELSE UNCHANGED <<sleeps, retryWait>>
    /\ mailpc' = "request"
    /\ UNCHANGED <<toRecipients, attempt, lastErr, mailResult, answers, urlOK,
                   nvars, mvars, evars,
                   kvars, lvars, tvars>>

\* sendWithRetry, lines 139-162: one request and what follows its answer.
SendWithRetryRequest(resp) ==
    /\ mailpc = "request"
    /\ IF ~urlOK
       THEN /\ mailResult' = Errorf("create request", 0, "")
            /\ mailpc' = "done"
            /\ UNCHANGED <<attempt, lastErr, answers>>
       ELSE /\ answers' = Append(answers, resp)
            /\ IF resp.code = 0
               THEN /\ lastErr' = SetLastErr(lastErr, Errorf("send request", 0, ""))
                    /\ attempt' = attempt + 1
                    /\ mailpc' = "sleep"
                    /\ UNCHANGED mailResult
               ELSE IF IsSuccess(resp.code)
               THEN /\ mailResult' = NoErr
                    /\ mailpc' = "done"
                    /\ UNCHANGED <<attempt, lastErr>>
               ELSE IF ShouldRetry(resp.code)
               THEN /\ lastErr' = SetLastErr(lastErr, Errorf("graph API returned",
                                                             resp.code, resp.body))
                    /\ attempt' = attempt + 1
                    /\ mailpc' = "sleep"
                    /\ UNCHANGED mailResult
               ELSE /\ mailResult' = Errorf("graph API error", resp.code, resp.body)
                    /\ mailpc' = "done"
                    /\ UNCHANGED <<attempt, lastErr>>
    /\ UNCHANGED <<toRecipients, retryWait, sleeps, urlOK, nvars, mvars, evars,
                   kvars, lvars, tvars>>

\* sendWithRetry, lines 130 and 165: the loop ends, the retries are used up.
SendWithRetryGiveUp ==
    /\ mailpc = "sleep"
    /\ ~LoopCondition(attempt)
    /\ mailResult' = MaxRetriesExceeded(lastErr)
    /\ mailpc' = "done"
    /\ UNCHANGED <<toRecipients, attempt, retryWait, lastErr, sleeps, answers,
                   urlOK, nvars, mvars, evars,
                   kvars, lvars, tvars>>

\* No SendMail call has begun.
MailIdle ==
    /\ mailpc = "idle"
    /\ toRecipients = <<>>
    /\ attempt = 0
    /\ retryWait = 0
    /\ lastErr = NoErr
    /\ mailResult = NoErr
    /\ sleeps = <<>>
    /\ answers = <<>>

MailInit == MailIdle /\ urlOK \in BOOLEAN

MailNext ==
    \/ \E recipients \in RecipientLists : SendMail(recipients)
    \/ SendWithRetrySleep
    \/ \E resp \in Responses : SendWithRetryRequest(resp)
    \/ SendWithRetryGiveUp

\* ----------------------------------------------------- claims: GraphClient
RECURSIVE Pow2(_)
Pow2(n) == IF n = 0 THEN 1 ELSE 2 * Pow2(n - 1)

\* The status codes the endpoint answered, in order (0: no response).
AnswerCodes == [k \in 1..Len(answers) |-> answers[k].code]

\* The error sendWithRetry keeps for an answer it retries after.
TransientErr(resp) ==
    IF resp.code = 0 THEN Errorf("send request", 0, "")
    ELSE Errorf("graph API returned", resp.code, resp.body)

AllTransient ==
    /\ answers # <<>>
    /\ \A k \in 1..Len(answers) : answers[k].code \in {0, 429, 503}

\* C12: a call makes at most 4 requests; the n-th request comes after
\* exactly n-1 sleeps, the k-th sleep lasting 1s * 2^(k-1) and at most 30s;
\* answers 503, 503, 503, 202 end the call with success after sleeps of 1s,
\* 2s and 4s.
C12_BackoffSchedule ==
    /\ Len(answers) <= 4
    /\ Len(sleeps) <= 3
    /\ \A k \in 1..Len(sleeps) : sleeps[k] = 1 * Pow2(k - 1) /\ sleeps[k] <= 30
    /\ mailpc = "request" => Len(sleeps) = Len(answers)
    /\ mailpc # "request" =>
          Len(sleeps) = IF answers = <<>> THEN 0 ELSE Len(answers) - 1
    /\ AnswerCodes = <<503, 503, 503, 202>> =>
          /\ mailpc = "done" /\ mailResult = NoErr
          /\ sleeps = <<1, 2, 4>>

\* The endpoint answered 503 three times and then 202, and SendMail has
\* returned nil.
C12_Witness ==
    /\ AnswerCodes = <<503, 503, 503, 202>>
    /\ mailpc = "done" /\ mailResult = NoErr
    /\ sleeps = <<1, 2, 4>>

\* C13: while every answer so far is transient (429, 503 or no response)
\* the call goes on up to 4 requests, and it then returns "max retries
\* exceeded" wrapping the error of the 4th, the last, failure.
C13_RetryExhaustion ==
    /\ (AllTransient /\ mailpc = "done") =>
          /\ Len(answers) = 4
          /\ mailResult = MaxRetriesExceeded(TransientErr(answers[4]))
    /\ mailResult.wrapped => AllTransient /\ mailpc = "done"

\* Four transient failures of different kinds, the last one a 429.
C13_Witness ==
    /\ mailpc = "done"
    /\ AnswerCodes = <<0, 503, 503, 429>>
    /\ mailResult = [kind |-> "graph API returned", code |-> 429,
                     body |-> answers[4].body, wrapped |-> TRUE]

\* C14: the step that receives a 200, 202 or 204 ends the call with nil,
\* the step that receives any status other than these, 429 and 503 ends it
\* with an error carrying that status and body, and an ended call takes no
\* further step: no request, no sleep.
C14_TerminalAnswers ==
    [][ /\ \A resp \in Responses :
              (answers' = Append(answers, resp))
                 => /\ resp.code \in {200, 202, 204}
                       => mailpc' = "done" /\ mailResult' = NoErr
                    /\ resp.code \notin {0, 200, 202, 204, 429, 503}
                       => /\ mailpc' = "done"
                          /\ mailResult' = [kind |-> "graph API error",
                                            code |-> resp.code,
                                            body |-> resp.body,
                                            wrapped |-> FALSE]
        /\ mailpc' = "done" => ~(ENABLED MailNext)' ]_vars

\* A 503 was retried and the 400 that followed ended the call.
C14_Witness ==
    /\ mailpc = "done"
    /\ answers = <<[code |-> 503, body |-> "x"], [code |-> 400, body |-> "y"]>>
    /\ mailResult = Errorf("graph API error", 400, "y")
    /\ sleeps = <<1>>

\* The lists SendMail refuses, and the two errors it refuses them with.
OnlyBlank(recipients) ==
    \A k \in 1..Len(recipients) : TrimSpace(recipients[k]) = <<>>

RecipientErrors ==
    {Errorf("no recipients specified", 0, ""),
     Errorf("no valid recipients after filtering", 0, "")}

\* C23: a SendMail call whose recipient list is empty, or holds only entries
\* that are blank once trimmed, ends at once with one of the two recipient
\* errors of lines 88 and 102; no request has been made and no wait taken,
\* and nothing follows the return.
C23_NoRecipientsNoRequest ==
    [][ /\ \A r \in RecipientLists :
              (SendMail(r) /\ OnlyBlank(r))
                 => /\ mailpc' = "done"
                    /\ mailResult' \in RecipientErrors
                    /\ answers' = <<>> /\ sleeps' = <<>>
                    /\ ~(ENABLED MailNext)'
        /\ \A r \in RecipientLists :
              (SendMail(r) /\ mailResult' \in RecipientErrors) => OnlyBlank(r) ]_vars

\* The call was given entries and all of them were blank: it returned the
\* error of line 102 with no request made.
C23_Witness ==
    /\ mailpc = "done"
    /\ mailResult = Errorf("no valid recipients after filtering", 0, "")
    /\ answers = <<>> /\ sleeps = <<>>

\* ================================================= SecretExpiryChecker.check
\* check() and fetchExpiryInfo() with all the fields of the info, the checks
\* of one monitor running one after another.
expiryWarningDays == 30

MaxChecks == 2         \* checks of one behaviour
MaxCreds == 3          \* passwordCredentials records in one API response

\* *types.GraphConfig: nil, or its five strings ("" or something).
NilCfg ==
    [nil |-> TRUE, TenantID |-> "", ClientID |-> "", ClientSecret |-> "",
     FromAddress |-> "", Recipients |-> ""]
FullCfg ==
    [nil |-> FALSE, TenantID |-> "t", ClientID |-> "c", ClientSecret |-> "s",
     FromAddress |-> "f", Recipients |-> "r"]
GraphConfigs ==
    {NilCfg, FullCfg,
     [FullCfg EXCEPT !.ClientSecret = ""],
     [FullCfg EXCEPT !.FromAddress = ""],
     [FullCfg EXCEPT !.Recipients = ""]}

\* IsConfigured of the mail client, lines 227-230; false for nil.
IsConfigured(c) ==
    /\ ~c.nil
    /\ c.TenantID # "" /\ c.ClientID # "" /\ c.ClientSecret # ""
    /\ c.FromAddress # "" /\ c.Recipients # ""

\* check, line 134, negated.
CheckProceeds(c) ==
    ~(c.nil \/ c.TenantID = "" \/ c.ClientID = "" \/ c.ClientSecret = "")

\* A time.Time: the zero value, or an instant h hours after the start of the
\* check, plus a fraction of a second if frac.
ZeroTime == [zero |-> TRUE, h |-> 0, frac |-> FALSE]
Instant(h, frac) == [zero |-> FALSE, h |-> h, frac |-> frac]

\* An endDateTime string: "", something time.Parse rejects, or an RFC 3339
\* time. The hours are 30 hours ago, in 15 days, in 30 days and 23 hours, in
\* 31 days, in 45 days.
HourOffsets == {-30, 360, 743, 744, 1080}
NoDate == [kind |-> "empty", h |-> 0, frac |-> FALSE]
BadDate == [kind |-> "bad", h |-> 0, frac |-> FALSE]
EndDates ==
    {NoDate, BadDate}
       \cup [kind : {"time"}, h : HourOffsets, frac : {FALSE}]
       \cup {[kind |-> "time", h |-> 360, frac |-> TRUE]}

\* time.Parse(time.RFC3339, str) where it succeeds.
Parse(str) == Instant(str.h, str.frac)

\* t.Format(time.RFC3339): the layout has no fraction of a second.
Format(t) == [kind |-> "time", h |-> t.h, frac |-> FALSE]

\* a.After(b); a.Before(b), line 225.
After(a, b) == a.h > b.h \/ (a.h = b.h /\ a.frac /\ ~b.frac)

Before(a, b) == a.h < b.h \/ (a.h = b.h /\ ~a.frac /\ b.frac)

\* fetchExpiryInfo, line 230: earliest.IsZero().
NeverZero(t) == FALSE

IsZero(t) == t.zero

\* fetchExpiryInfo, lines 216-228: the loop over the credentials.
RECURSIVE Earliest(_, _)
Earliest(creds, earliest) ==
    IF creds = <<>> THEN earliest
    ELSE LET cred == Head(creds) IN
         IF cred.kind # "time" THEN Earliest(Tail(creds), earliest)
         ELSE IF earliest.zero \/ Before(Parse(cred), earliest)
              THEN Earliest(Tail(creds), Parse(cred))
              ELSE Earliest(Tail(creds), earliest)

\* int(x / y) of Go for y > 0: the quotient is cut towards zero.
TruncDiv(x, y) == IF x >= 0 THEN x \div y ELSE -((-x) \div y)

\* time.Until(t), in half seconds (the zero time is far in the past).
Until(t) ==
    IF t.zero THEN -100000000 ELSE 7200 * t.h + (IF t.frac THEN 1 ELSE 0)

\* fetchExpiryInfo, lines 237-239: if daysLeft < 0 { daysLeft = 0 }.
NoClamp(d) == d

Clamp(d) == IF d < 0 THEN 0 ELSE d

\* fetchExpiryInfo, lines 236-239.
DaysLeft(t) == Clamp(TruncDiv(Until(t), 24 * 7200))

\* fetchExpiryInfo, line 243.
ExpiresBefore(d) == d < expiryWarningDays

ExpiresSoon(d) == d <= expiryWarningDays

\* types.SecretExpiryInfo
ZeroExpiryInfo ==
    [Error |-> "", ExpiresAt |-> NoDate, ExpiresSoon |-> FALSE, DaysLeft |-> 0]
ErrorInfo(msg) == [ZeroExpiryInfo EXCEPT !.Error = msg]

\* fetchExpiryInfo, lines 215-245: the info for the credentials of a response.
InfoOf(creds) ==
    LET earliest == Earliest(creds, ZeroTime) IN
    IF IsZero(earliest) THEN ErrorInfo("no password credentials found")
    ELSE [Error |-> "",
          ExpiresAt |-> Format(earliest),
          ExpiresSoon |-> ExpiresSoon(DaysLeft(earliest)),
          DaysLeft |-> DaysLeft(earliest)]

\* The answers of the identity API: no answer, a status other than 200, a
\* body that is no JSON, or the credential records of the application.
CredLists == UNION {[1..n -> EndDates] : n \in 0..MaxCreds}
NoResp == [kind |-> "none", creds |-> <<>>]
ApiResponses ==
    {[kind |-> k, creds |-> <<>>] : k \in {"request failed", "API returned", "parse response"}}
       \cup {[kind |-> "ok", creds |-> cl] : cl \in CredLists}

NoFetch == [info |-> ZeroExpiryInfo, err |-> ""]

\* check, lines 144-154: the info stored for what fetchExpiryInfo returned.
MergedInfo(old, f) ==
    IF f.err # "" THEN [old EXCEPT !.Error = f.err] ELSE f.info

StoredInfo(old, f) ==
    IF f.err # "" THEN ErrorInfo(f.err) ELSE f.info

\* UpdateConfig, lines 106-112, up to the call of check().
UpdateConfig(c) ==
    /\ xpc = "idle"
    /\ now < MaxChecks
    /\ xcfg' = c
    /\ xtokenSource' = "nil"
    /\ xpc' = "check"
    /\ UNCHANGED <<xcachedInfo, xlastCheck, now, fetched, apiResp, effects,
                   nvars, mvars, gvars,
                   kvars, lvars, tvars>>

\* Start, line 60, or the ticker case, lines 69-70: another check.
CheckAgain ==
    /\ xpc = "idle"
    /\ now < MaxChecks
    /\ xpc' = "check"
    /\ UNCHANGED <<xcfg, xtokenSource, xcachedInfo, xlastCheck, now, fetched,
                   apiResp, effects,
                   nvars, mvars, gvars,
                   kvars, lvars, tvars>>

\* check, lines 117-142: the test of the configuration.
CheckConfigured ==
    /\ xpc = "check"
    /\ now' = now + 1
    /\ apiResp' = NoResp
    /\ effects' = {}
    /\ IF CheckProceeds(xcfg)
       THEN /\ xpc' = "source"
            /\ fetched' = NoFetch
       ELSE /\ xpc' = "store"
            /\ fetched' = [info |-> ZeroExpiryInfo, err |-> "Graph API not configured"]
    /\ UNCHANGED <<xcfg, xtokenSource, xcachedInfo, xlastCheck,
                   nvars, mvars, gvars,
                   kvars, lvars, tvars>>

\* fetchExpiryInfo, lines 169-180: the token source is made if there is none.
FetchSource ==
    /\ xpc = "source"
    /\ IF xtokenSource = "nil"
       THEN /\ xtokenSource' = "set"
            /\ effects' = effects \cup {"token source"}
       ELSE UNCHANGED <<xtokenSource, effects>>
    /\ xpc' = "token"
    /\ UNCHANGED <<xcfg, xcachedInfo, xlastCheck, now, fetched, apiResp,
                   nvars, mvars, gvars,
                   kvars, lvars, tvars>>

\* fetchExpiryInfo, lines 182-186: ts.Token().
FetchToken(ok) ==
    /\ xpc = "token"
    /\ effects' = effects \cup {"token request"}
    /\ IF ok
       THEN /\ xpc' = "api"
            /\ UNCHANGED fetched
       ELSE /\ xpc' = "store"
            /\ fetched' = [info |-> ZeroExpiryInfo, err |-> "acquire token"]
    /\ UNCHANGED <<xcfg, xtokenSource, xcachedInfo, xlastCheck, now, apiResp,
                   nvars, mvars, gvars,
                   kvars, lvars, tvars>>

\* fetchExpiryInfo, lines 188-246: the request and the reading of its answer.
FetchApplication(resp) ==
    /\ xpc = "api"
    /\ effects' = effects \cup {"API request"}
    /\ apiResp' = resp
    /\ fetched' = IF resp.kind = "ok"
                  THEN [info |-> InfoOf(resp.creds), err |-> ""]
                  ELSE [info |-> ZeroExpiryInfo, err |-> resp.kind]
    /\ xpc' = "store"
    /\ UNCHANGED <<xcfg, xtokenSource, xcachedInfo, xlastCheck, now,
                   nvars, mvars, gvars,
                   kvars, lvars, tvars>>

\* check, lines 135-140 or 144-154: the write, and check() returns.
CheckStore ==
    /\ xpc = "store"
    /\ xcachedInfo' = StoredInfo(xcachedInfo, fetched)
    /\ xlastCheck' = now
    /\ xpc' = "idle"
    /\ UNCHANGED <<xcfg, xtokenSource, now, fetched, apiResp, effects,
                   nvars, mvars, gvars,
                   kvars, lvars, tvars>>

\* No check has run.
ExpiryIdle ==
    /\ xpc = "idle"
    /\ xtokenSource = "nil"
    /\ xcachedInfo = ZeroExpiryInfo
    /\ xlastCheck = 0
    /\ now = 0
    /\ fetched = NoFetch
    /\ apiResp = NoResp
    /\ effects = {}

\* NewSecretExpiryChecker, lines 39-44.
ExpiryInit == ExpiryIdle /\ xcfg \in GraphConfigs

ExpiryNext ==
    \/ \E c \in GraphConfigs : UpdateConfig(c)
    \/ CheckAgain
    \/ CheckConfigured
    \/ FetchSource
    \/ \E ok \in BOOLEAN : FetchToken(ok)
    \/ \E resp \in ApiResponses : FetchApplication(resp)
    \/ CheckStore

\* ------------------------------------------------ claims: expiry information
\* The last check that completed was answered with credential records, and
\* the cached info is the one it wrote.
LastCheckAnswered == apiResp.kind = "ok" /\ xpc \in {"idle", "check"}

\* The instants of the end-dates of the answer that parse.
Usable == {Parse(apiResp.creds[k]) :
              k \in {j \in 1..Len(apiResp.creds) : apiResp.creds[j].kind = "time"}}

\* The minimum of them: the one no other is before.
Soonest == CHOOSE t \in Usable : \A u \in Usable : ~Before(u, t)

\* C15: daysLeft is floor(hours until the earliest expiry / 24), at least 0,
\* and expiresSoon is daysLeft <= 30: 15 days give 15 and true, 45 days give
\* false, an expiry in the past gives 0.
C15_ExpiryMath ==
    (LastCheckAnswered /\ Usable # {}) =>
       /\ xcachedInfo.DaysLeft =
             (IF Soonest.h \div 24 < 0 THEN 0 ELSE Soonest.h \div 24)
       /\ xcachedInfo.ExpiresSoon = (xcachedInfo.DaysLeft <= 30)
       /\ Soonest.h = 15 * 24 => xcachedInfo.DaysLeft = 15 /\ xcachedInfo.ExpiresSoon
       /\ Soonest.h = 45 * 24 => ~xcachedInfo.ExpiresSoon
       /\ Soonest.h < 0 => xcachedInfo.DaysLeft = 0

\* A check found a credential that expired 30 hours ago and cached 0 days.
C15_Witness ==
    /\ LastCheckAnswered /\ Usable # {}
    /\ Soonest.h = -30
    /\ xcachedInfo.DaysLeft = 0 /\ xcachedInfo.ExpiresSoon

\* C16: the cached expiresAt is the earliest of the end-dates of the answer,
\* formatted, wherever it stands among the records.
C16_EarliestExpiry ==
    (LastCheckAnswered /\ Usable # {}) =>
       /\ xcachedInfo.Error = ""
       /\ xcachedInfo.ExpiresAt = Format(Soonest)
       /\ \A u \in Usable : xcachedInfo.ExpiresAt.h <= u.h

\* The earliest end-date came last, after a later one and an unparseable one.
C16_Witness ==
    /\ LastCheckAnswered
    /\ apiResp.creds = <<[kind |-> "time", h |-> 1080, frac |-> FALSE], BadDate,
                         [kind |-> "time", h |-> 360, frac |-> FALSE]>>
    /\ xcachedInfo.ExpiresAt = [kind |-> "time", h |-> 360, frac |-> FALSE]

\* C17 as stated: every cached info has expiresSoon = (daysLeft <= 30).
C17_SoonIffWithin30 ==
    xcachedInfo.ExpiresSoon = (xcachedInfo.DaysLeft <= 30)

\* C17: every cached info that carries an expiry has expiresSoon =
\* (daysLeft <= 30); the initial info and every info with an error have
\* daysLeft 0 and expiresSoon false.
C17_SoonIffWithin30OnSuccess ==
    IF xcachedInfo.Error = "" /\ xcachedInfo.ExpiresAt.kind = "time"
    THEN xcachedInfo.ExpiresSoon = (xcachedInfo.DaysLeft <= 30)
    ELSE xcachedInfo.DaysLeft = 0 /\ ~xcachedInfo.ExpiresSoon

\* A check cached 30 days left, the last value that expires soon.
C17_Witness ==
    /\ xpc = "idle"
    /\ xcachedInfo.Error = ""
    /\ xcachedInfo.DaysLeft = 30 /\ xcachedInfo.ExpiresSoon

\* C18: the write of a check stores the whole result of that check, the
\* error alone if it failed, and the current time as last check; an info
\* with an error has no expiresAt, daysLeft 0 and expiresSoon false.
C18_WholeInfoReplaced ==
    [][ /\ (xpc = "store" /\ xpc' = "idle") =>
              /\ xcachedInfo' = (IF fetched.err # "" THEN ErrorInfo(fetched.err)
                                                      ELSE fetched.info)
              /\ xlastCheck' = now /\ xlastCheck' > xlastCheck
        /\ xcachedInfo'.Error # "" =>
              /\ xcachedInfo'.ExpiresAt = NoDate
              /\ xcachedInfo'.DaysLeft = 0
              /\ ~xcachedInfo'.ExpiresSoon ]_vars

\* The second check failed to get a token and left only its error.
C18_Witness ==
    /\ xpc = "idle"
    /\ xlastCheck = 2
    /\ xcachedInfo = ErrorInfo("acquire token")

\* C19: a check of a configuration that is not configured (nil, or one of
\* the five fields empty) goes straight to the write of the not-configured
\* error, with no token source made and no request.
C19_IncompleteNotChecked ==
    /\ (xpc \notin {"idle", "check"} /\ ~IsConfigured(xcfg)) =>
          /\ xpc = "store"
          /\ fetched.err = "Graph API not configured"
          /\ effects = {}
    /\ (xpc = "idle" /\ now > 0 /\ ~IsConfigured(xcfg)) =>
          /\ xcachedInfo = ErrorInfo("Graph API not configured")
          /\ effects = {}

\* C20: an answer without a usable end-date is cached as the error "no
\* password credentials found" with no expiry field set.
C20_NoCredentialsFound ==
    /\ (LastCheckAnswered /\ Usable = {}) =>
          xcachedInfo = ErrorInfo("no password credentials found")
    /\ (apiResp.kind = "ok" /\ Usable = {} /\ xpc = "store") =>
          fetched.info = ErrorInfo("no password credentials found")

\* The answer held an empty and an unparseable end-date.
C20_Witness ==
    /\ LastCheckAnswered
    /\ apiResp.creds = <<NoDate, BadDate>>
    /\ xcachedInfo = ErrorInfo("no password credentials found")

\* ================================= SilenceNotifier: the cached Graph client
NumSenders == 2        \* email send tasks in flight at once
MaxVersions == 3       \* versions of the Graph configuration in the store

Senders == 1..NumSenders
NilClient == 0

\* NewGraphClient, part_003 lines 37-59: the client holds the credentials and
\* the from address of the configuration it is given; it is named by that
\* configuration's version.
NewGraphClient(c) == c.ver

NoGraphCfg == [ver |-> 0, configured |-> FALSE]

\* The settings are saved: the store holds a new Graph configuration, with
\* all five fields set or not.
SetGraphConfig(b) ==
    /\ gstore.ver < MaxVersions
    /\ gstore' = [ver |-> gstore.ver + 1, configured |-> b]
    /\ UNCHANGED <<graphClient, spc, sgraphCfg, sclient, invalidatedAt,
                   nvars, mvars, gvars, evars, lvars, tvars>>

\* InvalidateGraphClient, lines 35-39.
InvalidateKeepsClient ==
    /\ invalidatedAt' = gstore.ver
    /\ UNCHANGED <<graphClient, gstore, spc, sgraphCfg, sclient,
                   nvars, mvars, gvars, evars, lvars, tvars>>

InvalidateGraphClient ==
    /\ graphClient' = NilClient
    /\ invalidatedAt' = gstore.ver
    /\ UNCHANGED <<gstore, spc, sgraphCfg, sclient,
                   nvars, mvars, gvars, evars, lvars, tvars>>

\* handleSilenceStart / handleSilenceEnd, lines 71 and 93, then the go
\* statement and sendSilenceEmail / sendRecoveryEmail, lines 159 and 170: the
\* task is dispatched with graphCfg built from the caller's snapshot.
SendEmail(t) ==
    /\ spc[t] = "idle"
    /\ sgraphCfg' = [sgraphCfg EXCEPT ![t] = gstore]
    /\ spc' = [spc EXCEPT ![t] = "email"]
    /\ UNCHANGED <<graphClient, gstore, sclient, invalidatedAt,
                   nvars, mvars, gvars, evars, lvars, tvars>>

\* sendEmailWithClient, lines 179-186, with getOrCreateGraphClient, lines
\* 43-55, as its critical section. IsConfigured(cfg) holds past line 181, so
\* NewGraphClient finds its four fields set and returns no error.
SendEmailWithClient(t) ==
    /\ spc[t] = "email"
    /\ IF ~sgraphCfg[t].configured
       THEN /\ spc' = [spc EXCEPT ![t] = "idle"]
            /\ sgraphCfg' = [sgraphCfg EXCEPT ![t] = NoGraphCfg]
            /\ UNCHANGED <<graphClient, sclient>>
       ELSE /\ graphClient' = IF graphClient # NilClient THEN graphClient
                              ELSE NewGraphClient(sgraphCfg[t])
            /\ sclient' = [sclient EXCEPT ![t] = graphClient']
            /\ spc' = [spc EXCEPT ![t] = "send"]
            /\ UNCHANGED sgraphCfg
    /\ UNCHANGED <<gstore, invalidatedAt,
                   nvars, mvars, gvars, evars, lvars, tvars>>

\* sendEmailWithClient, lines 209-218: client.SendMail on the client it was
\* handed, or the "no valid recipients" return; the task ends.
ClientSendMail(t) ==
    /\ spc[t] = "send"
    /\ spc' = [spc EXCEPT ![t] = "idle"]
    /\ sclient' = [sclient EXCEPT ![t] = NilClient]
    /\ sgraphCfg' = [sgraphCfg EXCEPT ![t] = NoGraphCfg]
    /\ UNCHANGED <<graphClient, gstore, invalidatedAt,
                   nvars, mvars, gvars, evars, lvars, tvars>>

\* NewSilenceNotifier, lines 29-31: no client is cached.
CacheInit ==
    /\ graphClient = NilClient
    /\ gstore = [ver |-> 1, configured |-> TRUE]
    /\ spc = [t \in Senders |-> "idle"]
    /\ sgraphCfg = [t \in Senders |-> NoGraphCfg]
    /\ sclient = [t \in Senders |-> NilClient]
    /\ invalidatedAt = 0

CacheNext ==
    \/ \E b \in BOOLEAN : SetGraphConfig(b)
    \/ InvalidateGraphClient
    \/ \E t \in Senders : SendEmail(t)
    \/ \E t \in Senders : SendEmailWithClient(t)
    \/ \E t \in Senders : ClientSendMail(t)

\* ------------------------------------------- claims: the cached Graph client
\* The step is the critical section of getOrCreateGraphClient in task t.
GetOrCreateStep(t) ==
    /\ spc[t] = "email" /\ spc'[t] = "send"

\* C21: InvalidateGraphClient() leaves no client cached; the email send that
\* finds none cached builds a client from the configuration it was given,
\* caches it and sends with it; a send that finds a client cached sends with
\* that client and leaves it cached; and only InvalidateGraphClient() ever
\* removes or replaces a cached client.
C21_InvalidateRebuilds ==
    [][ /\ (invalidatedAt' # invalidatedAt) => graphClient' = NilClient
        /\ \A t \in Senders :
              GetOrCreateStep(t) =>
                 IF graphClient = NilClient
                 THEN /\ graphClient' = sgraphCfg[t].ver
                      /\ sclient'[t] = sgraphCfg[t].ver
                 ELSE /\ graphClient' = graphClient
                      /\ sclient'[t] = graphClient
        /\ (graphClient # NilClient /\ graphClient' # graphClient)
              => (graphClient' = NilClient /\ invalidatedAt' = gstore.ver) ]_vars

\* The configuration changed and the client was invalidated; the send that
\* followed was given the new configuration and sends with a client built
\* from it, while the other task still sends with the client of before.
C21_Witness ==
    /\ invalidatedAt = 2
    /\ graphClient = 2
    /\ spc = <<"send", "send">>
    /\ sclient = <<1, 2>>
    /\ sgraphCfg[2].ver = 2

\* C29: while the store holds a configured mail channel, a cached client is
\* built from a configuration at least as recent as the one that was in the
\* store at the latest InvalidateGraphClient().
C29_CacheAtLeastAsRecent ==
    (graphClient # NilClient /\ gstore.configured)
       => graphClient >= invalidatedAt

\* ======================================= lock discipline of both components
NumWorkers == 2        \* threads and goroutines running at once

Workers == 1..NumWorkers
Mutexes == {"n.mu", "c.mu"}

\* One statement of a function: what it does to a mutex, or that it only
\* touches memory ("mem"), or that it is a network call ("net") or a write
\* to the log file ("log"); `line` is its line in the source.
Stmt(op, mu, line) == [op |-> op, mu |-> mu, line |-> line]

\* check, part_001 lines 123-131: the deferred function.
CheckDeferred ==
    << Stmt("Lock", "c.mu", 124), Stmt("mem", "-", 125),
       Stmt("Unlock", "c.mu", 126), Stmt("mem", "-", 128) >>

\* fetchExpiryInfo, part_001 lines 169-204: token source under the lock,
\* then ts.Token() and c.httpClient.Do(req).
FetchHoldingLock ==
    << Stmt("Lock", "c.mu", 169), Stmt("mem", "-", 171),
       Stmt("net", "-", 182), Stmt("Unlock", "c.mu", 179),
       Stmt("net", "-", 198) >>

FetchExpiryInfo ==
    << Stmt("Lock", "c.mu", 169), Stmt("mem", "-", 171),
       Stmt("Unlock", "c.mu", 179), Stmt("net", "-", 182),
       Stmt("net", "-", 198) >>

\* check, part_001 lines 116-155, for a complete configuration.
Check ==
    << Stmt("Lock", "c.mu", 117), Stmt("mem", "-", 118),
       Stmt("Unlock", "c.mu", 121) >>
    \o FetchExpiryInfo
    \o << Stmt("Lock", "c.mu", 145), Stmt("mem", "-", 146),
          Stmt("Unlock", "c.mu", 154) >>
    \o CheckDeferred

\* check, for a nil or incomplete configuration (lines 134-141).
CheckNotConfigured ==
    << Stmt("Lock", "c.mu", 117), Stmt("mem", "-", 118),
       Stmt("Unlock", "c.mu", 121),
       Stmt("Lock", "c.mu", 135), Stmt("mem", "-", 136),
       Stmt("Unlock", "c.mu", 140) >>
    \o CheckDeferred

\* getOrCreateGraphClient, part_002 lines 43-55 (the unlock is deferred),
\* then client.SendMail, line 214.
SendEmailStmts ==
    << Stmt("mem", "-", 159), Stmt("mem", "-", 179),
       Stmt("Lock", "n.mu", 43), Stmt("mem", "-", 50),
       Stmt("Unlock", "n.mu", 44), Stmt("mem", "-", 209),
       Stmt("net", "-", 214) >>

Functions ==
    {"Start", "Stop", "GetInfo", "UpdateConfig", "tick",
     "trySend", "handleSilenceEnd", "Reset", "InvalidateGraphClient",
     "sendSilenceWebhook", "sendSilenceEmail", "logSilenceStart"}

\* The statements of each function, in the order it executes them.
Program(fn) ==
    CASE fn = "Start" ->
            << Stmt("Lock", "c.mu", 48), Stmt("mem", "-", 54),
               Stmt("Unlock", "c.mu", 57) >> \o Check
            \o << Stmt("mem", "-", 63) >>
      [] fn = "Stop" ->
            << Stmt("Lock", "c.mu", 81), Stmt("mem", "-", 86),
               Stmt("Unlock", "c.mu", 90), Stmt("mem", "-", 94) >>
      [] fn = "GetInfo" ->
            << Stmt("RLock", "c.mu", 100), Stmt("mem", "-", 102),
               Stmt("RUnlock", "c.mu", 101) >>
      [] fn = "UpdateConfig" ->
            << Stmt("Lock", "c.mu", 107), Stmt("mem", "-", 108),
               Stmt("Unlock", "c.mu", 110) >> \o CheckNotConfigured
      [] fn = "tick" -> Check
      [] fn = "trySend" ->
            << Stmt("Lock", "n.mu", 80), Stmt("mem", "-", 81),
               Stmt("Unlock", "n.mu", 85), Stmt("mem", "-", 87) >>
      [] fn = "handleSilenceEnd" ->
            << Stmt("mem", "-", 93), Stmt("Lock", "n.mu", 96),
               Stmt("mem", "-", 97), Stmt("Unlock", "n.mu", 104),
               Stmt("mem", "-", 106) >>
      [] fn = "Reset" ->
            << Stmt("Lock", "n.mu", 121), Stmt("mem", "-", 122),
               Stmt("Unlock", "n.mu", 125) >>
      [] fn = "InvalidateGraphClient" ->
            << Stmt("Lock", "n.mu", 36), Stmt("mem", "-", 37),
               Stmt("Unlock", "n.mu", 38) >>
      [] fn = "sendSilenceWebhook" -> << Stmt("net", "-", 131) >>
      [] fn = "sendSilenceEmail" -> SendEmailStmts
      [] fn = "logSilenceStart" -> << Stmt("log", "-", 224) >>

WorkerIdle == [fn |-> "idle", ip |-> 0]

Running(w) == lpc[w] # WorkerIdle /\ lpc[w].ip <= Len(Program(lpc[w].fn))
NextStmt(w) == Program(lpc[w].fn)[lpc[w].ip]
AtStmt(w, ops) == Running(w) /\ NextStmt(w).op \in ops
Advance(w) == lpc' = [lpc EXCEPT ![w].ip = @ + 1]

\* A thread or goroutine enters one of the functions.
Call(w, fn) ==
    /\ lpc[w] = WorkerIdle
    /\ lpc' = [lpc EXCEPT ![w] = [fn |-> fn, ip |-> 1]]
    /\ UNCHANGED <<wlock, rlock, inio, nvars, mvars, gvars, evars, kvars, tvars>>

\* sync.Mutex.Lock / sync.RWMutex.Lock: granted when nobody holds the mutex.
AcquireLock(w) ==
    /\ AtStmt(w, {"Lock"})
    /\ wlock[NextStmt(w).mu] = 0
    /\ NextStmt(w).mu = "c.mu" => rlock = {}
    /\ wlock' = [wlock EXCEPT ![NextStmt(w).mu] = w]
    /\ Advance(w)
    /\ UNCHANGED <<rlock, inio, nvars, mvars, gvars, evars, kvars, tvars>>

ReleaseLock(w) ==
    /\ AtStmt(w, {"Unlock"})
    /\ wlock' = [wlock EXCEPT ![NextStmt(w).mu] = 0]
    /\ Advance(w)
    /\ UNCHANGED <<rlock, inio, nvars, mvars, gvars, evars, kvars, tvars>>

\* sync.RWMutex.RLock: granted when no writer holds the mutex.
AcquireRLock(w) ==
    /\ AtStmt(w, {"RLock"})
    /\ wlock[NextStmt(w).mu] = 0
    /\ rlock' = rlock \cup {w}
    /\ Advance(w)
    /\ UNCHANGED <<wlock, inio, nvars, mvars, gvars, evars, kvars, tvars>>

ReleaseRLock(w) ==
    /\ AtStmt(w, {"RUnlock"})
    /\ rlock' = rlock \ {w}
    /\ Advance(w)
    /\ UNCHANGED <<wlock, inio, nvars, mvars, gvars, evars, kvars, tvars>>

MemStep(w) ==
    /\ AtStmt(w, {"mem"})
    /\ Advance(w)
    /\ UNCHANGED <<wlock, rlock, inio, nvars, mvars, gvars, evars, kvars, tvars>>

\* A network call or a log write begins; it ends some time later.
IOBegin(w) ==
    /\ AtStmt(w, {"net", "log"})
    /\ w \notin inio
    /\ inio' = inio \cup {w}
    /\ UNCHANGED <<lpc, wlock, rlock, nvars, mvars, gvars, evars, kvars, tvars>>

IOEnd(w) ==
    /\ w \in inio
    /\ inio' = inio \ {w}
    /\ Advance(w)
    /\ UNCHANGED <<wlock, rlock, nvars, mvars, gvars, evars, kvars, tvars>>

ReturnFrom(w) ==
    /\ lpc[w] # WorkerIdle
    /\ lpc[w].ip > Len(Program(lpc[w].fn))
    /\ lpc' = [lpc EXCEPT ![w] = WorkerIdle]
    /\ UNCHANGED <<wlock, rlock, inio, nvars, mvars, gvars, evars, kvars, tvars>>

LocksInit ==
    /\ lpc = [w \in Workers |-> WorkerIdle]
    /\ wlock = [m \in Mutexes |-> 0]
    /\ rlock = {}
    /\ inio = {}

LocksNext ==
    \/ \E w \in Workers, fn \in Functions : Call(w, fn)
    \/ \E w \in Workers : AcquireLock(w)
    \/ \E w \in Workers : ReleaseLock(w)
    \/ \E w \in Workers : AcquireRLock(w)
    \/ \E w \in Workers : ReleaseRLock(w)
    \/ \E w \in Workers : MemStep(w)
    \/ \E w \in Workers : IOBegin(w)
    \/ \E w \in Workers : IOEnd(w)
    \/ \E w \in Workers : ReturnFrom(w)

\* ------------------------------------------------- claims: lock discipline
Holds(w) == (\E m \in Mutexes : wlock[m] = w) \/ w \in rlock

\* C22: a worker inside a network call or a log write holds neither n.mu nor
\* c.mu, for writing or for reading; so a GetInfo() that has to wait for
\* c.mu waits for a holder that is not inside network I/O, and a GetInfo()
\* that finds no writer is granted the read lock whatever I/O is under way.
C22_NoIOUnderLock ==
    /\ \A w \in Workers : w \in inio => ~Holds(w)
    /\ \A r \in Workers :
          (lpc[r] = [fn |-> "GetInfo", ip |-> 1])
             => \/ ENABLED AcquireRLock(r)
                \/ wlock["c.mu"] \in Workers \ inio

\* GetInfo() holds the read lock while the check of another worker is inside
\* its request to the identity API.
C22_Witness ==
    /\ lpc[1].fn = "tick" /\ 1 \in inio /\ NextStmt(1).line = 198
    /\ lpc[2].fn = "GetInfo" /\ 2 \in rlock

\* ============================================================ SendTestEmail
\* cfg.Recipients as the characters of the string.
RecipientStrings ==
    { <<>>, <<"a">>, <<",">>, <<" ", ",", " ">>, <<"a", ",", " ", "b">> }

TestConfigs ==
    [TenantID : {"", "t"}, ClientID : {"", "c"}, ClientSecret : {"", "s"},
     FromAddress : {"", "f"}, Recipients : RecipientStrings]

NoTestCfg ==
    [TenantID |-> "", ClientID |-> "", ClientSecret |-> "",
     FromAddress |-> "", Recipients |-> <<>>]

\* strings.Split(str, ","): the pieces between the commas, empty ones kept.
RECURSIVE Split(_)
Split(str) ==
    IF \A k \in 1..Len(str) : str[k] # ","
    THEN <<str>>
    ELSE LET k == CHOOSE i \in 1..Len(str) :
                     str[i] = "," /\ \A j \in 1..(i - 1) : str[j] # ","
         IN <<SubSeq(str, 1, k - 1)>> \o Split(SubSeq(str, k + 1, Len(str)))

\* ParseRecipients, part_003 lines 233-241.
ParseRecipients(str) == FilterRecipients(Split(str))

\* ValidateConfig, part_003 lines 207-224: the first field found empty.
ValidateConfig(c) ==
    IF c.TenantID = "" THEN "tenant ID is required"
    ELSE IF c.ClientID = "" THEN "client ID is required"
    ELSE IF c.ClientSecret = "" THEN "client secret is required"
    ELSE IF c.FromAddress = "" THEN "from address (shared mailbox) is required"
    ELSE IF c.Recipients = <<>> THEN "recipients are required"
    ELSE "nil"

\* IsConfigured, part_003 lines 227-230, on a configuration that is not nil.
AllFieldsSet(c) ==
    /\ c.TenantID # "" /\ c.ClientID # "" /\ c.ClientSecret # ""
    /\ c.FromAddress # "" /\ c.Recipients # <<>>

\* What c.httpClient.Do returns to ValidateAuth: an error (code 0) whose text
\* names oauth2 or a token, or some other error, or a response.
ProbeStatuses == {200, 204, 400, 401, 403, 404, 500}
ProbeOutcomes ==
    [code : {0}, err : {"oauth2: cannot fetch token", "dial tcp"}]
       \cup [code : ProbeStatuses, err : {"nil"}]
NoProbe == [code |-> -1, err |-> "nil"]

TestErr(msg, code) == [msg |-> msg, code |-> code]
NoTestErr == TestErr("nil", 0)

\* ValidateAuth, lines 193-195: the statuses that validate the credentials.
AcceptsOnlyOK(code) == code = 200
AcceptedStatus(code) == code \in {200, 403}

\* ValidateAuth, part_003 lines 180-203.
ValidateAuth(resp) ==
    IF resp.code = 0
    THEN IF resp.err = "oauth2: cannot fetch token"
         THEN TestErr("authentication failed", 0)
         ELSE TestErr("validation request failed", 0)
    ELSE IF AcceptedStatus(resp.code) THEN NoTestErr
    ELSE IF resp.code = 404 THEN TestErr("mailbox not found", 0)
    ELSE IF resp.code = 401
         THEN TestErr("authentication failed: invalid credentials", 0)
    ELSE TestErr("validation failed with status", resp.code)

\* SendTestEmail, graph_expiry.go lines 270-272.
TestValidateConfig ==
    /\ tpc = "validate"
    /\ IF ValidateConfig(tcfg) # "nil"
       THEN /\ terr' = TestErr(ValidateConfig(tcfg), 0)
            /\ tpc' = "done"
       ELSE /\ tpc' = "client"
            /\ UNCHANGED terr
    /\ UNCHANGED <<tcfg, tprobe, nvars, mvars, gvars, evars, kvars, lvars>>

\* SendTestEmail, lines 274-277: NewGraphClient (part_003 lines 38-43).
TestNewGraphClient ==
    /\ tpc = "client"
    /\ IF tcfg.TenantID = "" \/ tcfg.ClientID = "" \/ tcfg.ClientSecret = ""
          \/ tcfg.FromAddress = ""
       THEN /\ terr' = TestErr("create Graph client", 0)
            /\ tpc' = "done"
       ELSE /\ tpc' = "auth"
            /\ UNCHANGED terr
    /\ UNCHANGED <<tcfg, tprobe, nvars, mvars, gvars, evars, kvars, lvars>>

\* SendTestEmail, lines 280-282: the probe is answered and ValidateAuth
\* returns; its error ends SendTestEmail at once.
TestValidateAuth(resp) ==
    /\ tpc = "auth"
    /\ tprobe' = resp
    /\ terr' = ValidateAuth(resp)
    /\ tpc' = IF terr' = NoTestErr THEN "send" ELSE "done"
    /\ UNCHANGED <<tcfg, nvars, mvars, gvars, evars, kvars, lvars>>

\* SendTestEmail, lines 292-297: ParseRecipients, then client.SendMail,
\* which refuses an empty list (part_003 line 88) and otherwise sends, with
\* or without success.
TestSendMail(ok) ==
    /\ tpc = "send"
    /\ terr' = IF Len(ParseRecipients(tcfg.Recipients)) = 0
               THEN TestErr("send email: no recipients specified", 0)
               ELSE IF ok THEN NoTestErr ELSE TestErr("send email", 0)
    /\ tpc' = "done"
    /\ UNCHANGED <<tcfg, tprobe, nvars, mvars, gvars, evars, kvars, lvars>>

\* No test email is asked for.
TestQuiet ==
    /\ tpc = "off"
    /\ tcfg = NoTestCfg
    /\ tprobe = NoProbe
    /\ terr = NoTestErr

\* SendTestEmail is called with some configuration.
TestInit ==
    /\ tpc = "validate"
    /\ tcfg \in TestConfigs
    /\ tprobe = NoProbe
    /\ terr = NoTestErr

TestNext ==
    \/ TestValidateConfig
    \/ TestNewGraphClient
    \/ \E resp \in ProbeOutcomes : TestValidateAuth(resp)
    \/ \E ok \in BOOLEAN : TestSendMail(ok)

\* ------------------------------------------------- claims: SendTestEmail
\* C24: a configuration for which ValidateConfig returned no error has all
\* five fields non-empty and a recipients string that parses (split at the
\* commas, trimmed, blanks dropped) to at least one address.
C24_ValidHasRecipient ==
    (tpc \in {"client", "auth", "send"})
       => /\ AllFieldsSet(tcfg)
          /\ Len(ParseRecipients(tcfg.Recipients)) >= 1

\* C25: the error ValidateAuth returns for a response is nil for status 200
\* and 403, the mailbox error for 404, the credentials error for 401 and the
\* generic failure, carrying the status, for every other status; the error
\* ends SendTestEmail in the same step, before anything is sent.
C25_ValidateAuthMapping ==
    [][ \A resp \in ProbeOutcomes :
          (tpc = "auth" /\ tprobe' = resp /\ tpc' # tpc /\ resp.code # 0)
             => /\ resp.code \in {200, 403}
                   => terr' = NoTestErr /\ tpc' = "send"
                /\ resp.code = 404
                   => terr' = TestErr("mailbox not found", 0) /\ tpc' = "done"
                /\ resp.code = 401
                   => /\ terr' = TestErr("authentication failed: invalid credentials", 0)
                      /\ tpc' = "done"
                /\ resp.code \notin {200, 401, 403, 404}
                   => /\ terr' = TestErr("validation failed with status", resp.code)
                      /\ tpc' = "done" ]_vars

\* The probe was answered 403 and SendTestEmail went on to send.
C25_Witness ==
    /\ tprobe = [code |-> 403, err |-> "nil"]
    /\ tpc = "send"
    /\ terr = NoTestErr

\* ========================================================== specifications
\* The dispatcher, with the monitor never started.
Init == NotifierInit /\ CheckerInit /\ offered = {"none"} /\ MailIdle /\ urlOK = TRUE
    /\ ExpiryIdle /\ xcfg = NilCfg
    /\ CacheInit /\ LocksInit /\ TestQuiet

Next == NotifierNext

Spec == Init /\ [][Next]_vars

\* The monitor with the rendezvous, with the dispatcher left alone.
InitChecker ==
    /\ CheckerInit /\ offered = {"none", "A"}
    /\ NotifierInit /\ cfg = NoConfig
    /\ MailIdle /\ urlOK = TRUE
    /\ ExpiryIdle /\ xcfg = NilCfg
    /\ CacheInit /\ LocksInit /\ TestQuiet

NextChecker == CheckerNext

SpecChecker == InitChecker /\ [][NextChecker]_vars

\* The version of internal/notify/graph_expiry.go.
InitLegacy ==
    /\ LegacyInit /\ offered = {"none", "A"}
    /\ NotifierInit /\ cfg = NoConfig
    /\ MailIdle /\ urlOK = TRUE
    /\ ExpiryIdle /\ xcfg = NilCfg
    /\ CacheInit /\ LocksInit /\ TestQuiet

NextLegacy == LegacyNext

SpecLegacy == InitLegacy /\ [][NextLegacy]_vars

\* A monitor that is never started: concurrent UpdateConfig() calls over
\* two complete configurations and an incomplete one.
InitUpdate ==
    /\ CheckerInit /\ offered = CheckerConfigs
    /\ NotifierInit /\ cfg = NoConfig
    /\ MailIdle /\ urlOK = TRUE
    /\ ExpiryIdle /\ xcfg = NilCfg
    /\ CacheInit /\ LocksInit /\ TestQuiet

NextUpdate == UpdateNext

SpecUpdate == InitUpdate /\ [][NextUpdate]_vars

\* One SendMail call of a GraphClient.
InitMail ==
    /\ MailInit
    /\ NotifierInit /\ cfg = NoConfig
    /\ CheckerInit /\ offered = {"none"}
    /\ ExpiryIdle /\ xcfg = NilCfg
    /\ CacheInit /\ LocksInit /\ TestQuiet

NextMail == MailNext

SpecMail == InitMail /\ [][NextMail]_vars

\* The checks of one SecretExpiryChecker, one after another.
InitExpiry ==
    /\ ExpiryInit
    /\ NotifierInit /\ cfg = NoConfig
    /\ CheckerInit /\ offered = {"none"}
    /\ MailIdle /\ urlOK = TRUE
    /\ CacheInit /\ LocksInit /\ TestQuiet

NextExpiry == ExpiryNext

SpecExpiry == InitExpiry /\ [][NextExpiry]_vars

\* The cached Graph client of one SilenceNotifier and its email sends.
InitCache ==
    /\ CacheInit
    /\ NotifierInit /\ cfg = NoConfig
    /\ CheckerInit /\ offered = {"none"}
    /\ MailIdle /\ urlOK = TRUE
    /\ ExpiryIdle /\ xcfg = NilCfg
    /\ LocksInit /\ TestQuiet

NextCache == CacheNext

SpecCache == InitCache /\ [][NextCache]_vars

\* Both components statement by statement, with their mutexes.
InitLocks ==
    /\ LocksInit
    /\ NotifierInit /\ cfg = NoConfig
    /\ CheckerInit /\ offered = {"none"}
    /\ MailIdle /\ urlOK = TRUE
    /\ ExpiryIdle /\ xcfg = NilCfg
    /\ CacheInit /\ TestQuiet

NextLocks == LocksNext

SpecLocks == InitLocks /\ [][NextLocks]_vars

\* One SendTestEmail call.
InitTest ==
    /\ TestInit
    /\ NotifierInit /\ cfg = NoConfig
    /\ CheckerInit /\ offered = {"none"}
    /\ MailIdle /\ urlOK = TRUE
    /\ ExpiryIdle /\ xcfg = NilCfg
    /\ CacheInit /\ LocksInit

NextTest == TestNext

SpecTest == InitTest /\ [][NextTest]_vars
====
